---------------------------- MODULE Spec2Model ----------------------------
(***************************************************************************)
(* A model of the transformation engine of oas3-modularize:                *)
(*   bin/core/namingConventions.js  (toWords, applyNamingConvention)       *)
(*   bin/core/transform.js          (classifySchema, buildSchemaMapping,   *)
(*                                   normalizeExistingResponses,           *)
(*                                   extractInlineResponses, transform)    *)
(*                                                                         *)
(* JavaScript strings whose characters matter (component names, status     *)
(* codes, $ref strings, routes) are sequences of one-character strings.    *)
(* Insertion-ordered JavaScript objects are sequences of [k, v] records    *)
(* with pairwise distinct keys.                                            *)
(***************************************************************************)
EXTENDS Integers, Sequences, FiniteSets, TLC

\* ------------------------------------------------------------------------
\* Characters and strings
\* ------------------------------------------------------------------------

Lowers == <<"a", "b", "c", "d", "e", "f", "g", "h", "i", "j", "k", "l", "m",
            "n", "o", "p", "q", "r", "s", "t", "u", "v", "w", "x", "y", "z">>

Uppers == <<"A", "B", "C", "D", "E", "F", "G", "H", "I", "J", "K", "L", "M",
            "N", "O", "P", "Q", "R", "S", "T", "U", "V", "W", "X", "Y", "Z">>

Digits == <<"0", "1", "2", "3", "4", "5", "6", "7", "8", "9">>

IsLower(c) == \E i \in DOMAIN Lowers : Lowers[i] = c

IsUpper(c) == \E i \in DOMAIN Uppers : Uppers[i] = c

IsDigit(c) == \E i \in DOMAIN Digits : Digits[i] = c

DigitValue(c) == (CHOOSE i \in DOMAIN Digits : Digits[i] = c) - 1

toLowerCaseChar(c) ==
  IF IsUpper(c) THEN Lowers[CHOOSE i \in DOMAIN Uppers : Uppers[i] = c] ELSE c

toUpperCaseChar(c) ==
  IF IsLower(c) THEN Uppers[CHOOSE i \in DOMAIN Lowers : Lowers[i] = c] ELSE c

toLowerCase(s) == [i \in 1..Len(s) |-> toLowerCaseChar(s[i])]

toUpperCase(s) == [i \in 1..Len(s) |-> toUpperCaseChar(s[i])]

startsWith(s, p) == Len(p) <= Len(s) /\ SubSeq(s, 1, Len(p)) = p

endsWith(s, p) == Len(p) <= Len(s) /\ SubSeq(s, Len(s) - Len(p) + 1, Len(s)) = p

\* String.prototype.substring(n): the string without its first n characters.
substring(s, n) == SubSeq(s, n + 1, Len(s))

\* String.prototype.split(sep) for a one-character separator: empty pieces
\* are kept.
RECURSIVE splitAcc(_, _, _)
splitAcc(s, sep, cur) ==
  IF s = <<>> THEN <<cur>>
  ELSE IF Head(s) = sep THEN <<cur>> \o splitAcc(Tail(s), sep, <<>>)
  ELSE splitAcc(Tail(s), sep, Append(cur, Head(s)))

split(s, sep) == splitAcc(s, sep, <<>>)

\* Array.prototype.join(sep)
RECURSIVE join(_, _)
join(words, sep) ==
  IF words = <<>> THEN <<>>
  ELSE IF Len(words) = 1 THEN words[1]
  ELSE words[1] \o sep \o join(Tail(words), sep)

\* str.replace(new RegExp(escaped(old), 'g'), new): every occurrence of the
\* literal old, left to right, non-overlapping; replaced text is not rescanned.
RECURSIVE replaceAll(_, _, _)
replaceAll(str, old, new) ==
  IF old = <<>> \/ Len(str) < Len(old) THEN str
  ELSE IF startsWith(str, old)
       THEN new \o replaceAll(substring(str, Len(old)), old, new)
       ELSE <<Head(str)>> \o replaceAll(Tail(str), old, new)

\* String(counter) for a non-negative integer.
RECURSIVE toDecimal(_)
toDecimal(n) ==
  IF n < 10 THEN <<Digits[n + 1]>>
  ELSE toDecimal(n \div 10) \o <<Digits[(n % 10) + 1]>>

\* Number of leading decimal digits of s.
RECURSIVE leadingDigits(_)
leadingDigits(s) ==
  IF s = <<>> \/ ~IsDigit(Head(s)) THEN 0 ELSE 1 + leadingDigits(Tail(s))

RECURSIVE decimalValue(_, _)
decimalValue(s, acc) ==
  IF s = <<>> THEN acc ELSE decimalValue(Tail(s), acc * 10 + DigitValue(Head(s)))

\* NaN of parseInt
NaN == -1

\* parseInt(statusCode, 10) on a string with no sign and no leading blanks:
\* the value of the leading run of digits, NaN when there is none.
parseInt(s) ==
  IF leadingDigits(s) = 0 THEN NaN
  ELSE decimalValue(SubSeq(s, 1, leadingDigits(s)), 0)

\* ------------------------------------------------------------------------
\* namingConventions.js
\* ------------------------------------------------------------------------

sResponse == <<"R", "e", "s", "p", "o", "n", "s", "e">>

\* .replace(/([a-z])([A-Z])/g, '$1 $2')
RECURSIVE camelToSpaces(_)
camelToSpaces(s) ==
  IF Len(s) < 2 THEN s
  ELSE IF IsLower(s[1]) /\ IsUpper(s[2])
       THEN <<s[1], " ">> \o camelToSpaces(Tail(s))
       ELSE <<s[1]>> \o camelToSpaces(Tail(s))

\* .replace(/_/g, ' ').replace(/-/g, ' ')
separatorsToSpaces(s) ==
  [i \in 1..Len(s) |-> IF s[i] = "_" \/ s[i] = "-" THEN " " ELSE s[i]]

\* Array.prototype.filter(w => w.length > 0)
RECURSIVE nonEmpty(_)
nonEmpty(words) ==
  IF words = <<>> THEN <<>>
  ELSE IF Head(words) = <<>> THEN nonEmpty(Tail(words))
  ELSE <<Head(words)>> \o nonEmpty(Tail(words))

toWords(name) ==
  IF name = <<>> THEN <<>>
  ELSE nonEmpty(split(toLowerCase(separatorsToSpaces(camelToSpaces(name))), " "))

\* w.charAt(0).toUpperCase() + w.slice(1)
capitalize(w) == IF w = <<>> THEN w ELSE <<toUpperCaseChar(w[1])>> \o Tail(w)

capitalizeAll(words) == [i \in 1..Len(words) |-> capitalize(words[i])]

pascalCase(words) == join(capitalizeAll(words), <<>>)

applyNamingConvention(name, convention) ==
  IF name = <<>> THEN <<>>
  ELSE LET words == toWords(name) IN
    IF words = <<>> THEN name
    ELSE CASE convention = "PascalCase" -> pascalCase(words)
           [] convention = "camelCase" ->
                toLowerCase(words[1]) \o pascalCase(Tail(words))
           [] convention = "snake_case" -> join(words, <<"_">>)
           [] convention = "kebab-case" -> join(words, <<"-">>)
           [] convention = "lowercase" -> join(words, <<>>)
           [] convention = "UPPERCASE" -> toUpperCase(join(words, <<"_">>))
           [] OTHER -> pascalCase(words)


\* ------------------------------------------------------------------------
\* JavaScript objects as insertion-ordered maps.  (Object.entries lists
\* integer-like keys first; the keys held in these maps are never
\* integer-like, except status codes, which the inputs list in that order.)
\* ------------------------------------------------------------------------

EmptyMap == <<>>

HasKey(m, key) == \E i \in DOMAIN m : m[i].k = key

Get(m, key) == m[CHOOSE i \in DOMAIN m : m[i].k = key].v

Keys(m) == {m[i].k : i \in DOMAIN m}

\* m[key] = value
Put(m, key, value) ==
  IF HasKey(m, key)
  THEN [i \in DOMAIN m |-> IF m[i].k = key THEN [k |-> key, v |-> value] ELSE m[i]]
  ELSE Append(m, [k |-> key, v |-> value])

\* { ...a, ...b }
RECURSIVE Spread(_, _)
Spread(a, b) ==
  IF b = <<>> THEN a ELSE Spread(Put(a, b[1].k, b[1].v), Tail(b))

\* ------------------------------------------------------------------------
\* transform.js: schema classification and mapping
\* ------------------------------------------------------------------------

OBJECT == "objects"

PROPERTY == "properties"

ENUM == "enums"

ARRAY == "arrays"

COMPOSITE == "composites"

SCHEMA_TYPES == {OBJECT, PROPERTY, ENUM, ARRAY, COMPOSITE}

\* A schema value: kind is the JavaScript value's kind; each field holds
\* "absent" (undefined), "null", or a tag of a truthy value.
Truthy(fieldValue) == fieldValue \notin {"absent", "null"}

PrimitiveTypes == {"string", "number", "integer", "boolean"}

\* classifySchema with the array test put before the enum test
classifySchemaArrayFirst(schema) ==
  IF schema.kind \notin {"object", "array"} THEN OBJECT
  ELSE IF schema.type = "array" THEN ARRAY
  ELSE IF Truthy(schema.enum) THEN ENUM
  ELSE IF Truthy(schema.allOf) \/ Truthy(schema.oneOf) \/ Truthy(schema.anyOf)
       THEN COMPOSITE
  ELSE IF schema.type = "object" /\ Truthy(schema.properties) THEN OBJECT
  ELSE IF schema.type \in PrimitiveTypes THEN PROPERTY
  ELSE OBJECT

classifySchema(schema) ==
  IF schema.kind \notin {"object", "array"} THEN OBJECT
  ELSE IF Truthy(schema.enum) THEN ENUM
  ELSE IF schema.type = "array" THEN ARRAY
  ELSE IF Truthy(schema.allOf) \/ Truthy(schema.oneOf) \/ Truthy(schema.anyOf)
       THEN COMPOSITE
  ELSE IF schema.type = "object" /\ Truthy(schema.properties) THEN OBJECT
  ELSE IF schema.type \in PrimitiveTypes THEN PROPERTY
  ELSE OBJECT

\* folders[schemaType] / suffixes[schemaType]: a configured table is a
\* function whose domain holds the configured keys.
Configured(table, key) == key \in DOMAIN table

schemaFolder(scaffolding, schemaType) ==
  IF scaffolding.schemaClassification /\ Configured(scaffolding.folders, schemaType)
  THEN scaffolding.folders[schemaType]
  ELSE "schemas"

schemaSuffix(scaffolding, schemaType) ==
  IF scaffolding.schemaClassification /\ Configured(scaffolding.folders, schemaType)
  THEN IF Configured(scaffolding.suffixes, schemaType)
       THEN scaffolding.suffixes[schemaType] ELSE <<>>
  ELSE IF Configured(scaffolding.suffixes, "schemas")
       THEN scaffolding.suffixes["schemas"] ELSE <<>>

schemaFileName(name, suffix, convention) ==
  LET fileName == applyNamingConvention(name, convention) IN
  IF suffix # <<>> /\ ~endsWith(fileName, suffix) THEN fileName \o suffix
  ELSE fileName

schemaMappingEntry(name, schema, scaffolding, convention) ==
  LET schemaType == classifySchema(schema) IN
  [folder   |-> schemaFolder(scaffolding, schemaType),
   fileName |-> schemaFileName(name, schemaSuffix(scaffolding, schemaType), convention),
   type     |-> schemaType,
   original |-> name]

RECURSIVE buildSchemaMappingFrom(_, _, _, _)
buildSchemaMappingFrom(schemas, scaffolding, convention, mapping) ==
  IF schemas = <<>> THEN mapping
  ELSE buildSchemaMappingFrom(Tail(schemas), scaffolding, convention,
         Put(mapping, schemas[1].k,
             schemaMappingEntry(schemas[1].k, schemas[1].v, scaffolding, convention)))

buildSchemaMapping(schemas, scaffolding, convention) ==
  buildSchemaMappingFrom(schemas, scaffolding, convention, EmptyMap)

\* ------------------------------------------------------------------------
\* transform.js: response utilities
\* ------------------------------------------------------------------------

sGet == <<"g", "e", "t">>

sPost == <<"p", "o", "s", "t">>

sPut == <<"p", "u", "t">>

sDelete == <<"d", "e", "l", "e", "t", "e">>

sPatch == <<"p", "a", "t", "c", "h">>

HTTP_METHODS ==
  {sGet, sPost, sPut, sDelete, sPatch,
   <<"o", "p", "t", "i", "o", "n", "s">>,
   <<"h", "e", "a", "d">>, <<"t", "r", "a", "c", "e">>}

\* The media types of the inputs, in the order Array.prototype.sort gives.
MediaTypeOrder == <<"application/json", "application/xml", "text/plain">>

\* Object.keys(sig).sort()
sortedKeys(keys) == SelectSeq(MediaTypeOrder, LAMBDA mt : mt \in keys)

\* JSON text is a sequence of tokens, each property followed by a separator
\* token.  JSON.stringify(value, list) with a property list writes, for EVERY
\* object of the value (nested ones included), only the properties named in
\* the list, in the list's order.
RECURSIVE stringifyPairs(_, _)
stringifyPairs(pairs, allowed) ==
  IF pairs = <<>> THEN <<>>
  ELSE IF pairs[1].k \in allowed
       THEN <<pairs[1].k, ":", pairs[1].v, ",">> \o stringifyPairs(Tail(pairs), allowed)
       ELSE stringifyPairs(Tail(pairs), allowed)

\* mc.schema || null
stringifySchema(mc, allowed) ==
  IF ~mc.hasSchema THEN <<"null">>
  ELSE <<"{">> \o stringifyPairs(mc.schema, allowed) \o <<"}">>

\* { schema: mc.schema || null }
stringifyMedia(mc, allowed) ==
  <<"{">>
  \o (IF "schema" \in allowed
      THEN <<"schema", ":">> \o stringifySchema(mc, allowed) ELSE <<>>)
  \o <<"}">>

RECURSIVE stringifySig(_, _, _)
stringifySig(content, list, allowed) ==
  IF list = <<>> THEN <<>>
  ELSE <<list[1], ":">> \o stringifyMedia(Get(content, list[1]), allowed) \o <<",">>
       \o stringifySig(content, Tail(list), allowed)

\* getContentSignature as it would be were the description part of the key
getContentSignatureWithDescription(resp) ==
  IF ~resp.hasContent THEN <<>>
  ELSE <<"{", resp.description>>
       \o stringifySig(resp.content, sortedKeys(Keys(resp.content)), Keys(resp.content))
       \o <<"}">>

\* null is the empty text: no JSON text is empty.
getContentSignature(resp) ==
  IF ~resp.hasContent THEN <<>>
  ELSE <<"{">>
       \o stringifySig(resp.content, sortedKeys(Keys(resp.content)), Keys(resp.content))
       \o <<"}">>

is2xxStatus(statusCode) ==
  LET n == parseInt(statusCode) IN n # NaN /\ n >= 200 /\ n < 300

endsWithIgnoreCase(s, p) == endsWith(toLowerCase(s), p)

dropLast(s, n) == SubSeq(s, 1, Len(s) - n)

naiveSingularize(name) ==
  IF name = <<>> THEN name
  ELSE IF endsWithIgnoreCase(name, <<"i", "e", "s">>) THEN dropLast(name, 3) \o <<"y">>
  ELSE IF endsWithIgnoreCase(name, <<"s", "e", "s">>) THEN dropLast(name, 2)
  ELSE IF endsWithIgnoreCase(name, <<"s">>) THEN dropLast(name, 1)
  ELSE name

\* ------------------------------------------------------------------------
\* transform.js: smart names
\* ------------------------------------------------------------------------

operationIdVerbs ==
  {<<"g", "e", "t">>,
   <<"l", "i", "s", "t">>,
   <<"c", "r", "e", "a", "t", "e">>,
   <<"u", "p", "d", "a", "t", "e">>,
   <<"d", "e", "l", "e", "t", "e">>,
   <<"r", "e", "t", "r", "i", "e", "v", "e">>,
   <<"s", "e", "a", "r", "c", "h">>,
   <<"r", "e", "g", "i", "s", "t", "e", "r">>,
   <<"e", "x", "c", "h", "a", "n", "g", "e">>,
   <<"e", "x", "e", "c", "u", "t", "e">>,
   <<"c", "o", "n", "t", "r", "o", "l">>,
   <<"r", "e", "q", "u", "e", "s", "t">>,
   <<"i", "n", "i", "t", "i", "a", "t", "e">>,
   <<"n", "o", "t", "i", "f", "y">>,
   <<"a", "p", "p", "r", "o", "v", "e">>,
   <<"r", "e", "j", "e", "c", "t">>,
   <<"a", "c", "t", "i", "v", "a", "t", "e">>,
   <<"d", "e", "a", "c", "t", "i", "v", "a", "t", "e">>}

knownActions ==
  {<<"R", "e", "g", "i", "s", "t", "e", "r">>,
   <<"R", "e", "t", "r", "i", "e", "v", "e">>,
   <<"U", "p", "d", "a", "t", "e">>,
   <<"E", "x", "e", "c", "u", "t", "e">>,
   <<"E", "x", "c", "h", "a", "n", "g", "e">>,
   <<"C", "o", "n", "t", "r", "o", "l">>,
   <<"R", "e", "q", "u", "e", "s", "t">>,
   <<"I", "n", "i", "t", "i", "a", "t", "e">>,
   <<"C", "r", "e", "a", "t", "e">>,
   <<"E", "v", "a", "l", "u", "a", "t", "e">>,
   <<"P", "r", "o", "v", "i", "d", "e">>,
   <<"N", "o", "t", "i", "f", "y">>,
   <<"C", "a", "p", "t", "u", "r", "e">>,
   <<"n", "o", "t", "i", "f", "y">>,
   <<"a", "p", "p", "r", "o", "v", "e">>,
   <<"r", "e", "j", "e", "c", "t">>,
   <<"a", "c", "t", "i", "v", "a", "t", "e">>,
   <<"d", "e", "a", "c", "t", "i", "v", "a", "t", "e">>,
   <<"t", "r", "a", "n", "s", "f", "e", "r">>,
   <<"p", "r", "o", "m", "o", "t", "e">>,
   <<"c", "a", "l", "c", "u", "l", "a", "t", "e">>,
   <<"s", "e", "a", "r", "c", "h">>,
   <<"g", "e", "n", "e", "r", "a", "t", "e">>,
   <<"a", "r", "c", "h", "i", "v", "e">>,
   <<"d", "e", "l", "e", "t", "e">>}

sResource == <<"R", "e", "s", "o", "u", "r", "c", "e">>

\* String.prototype.trim()
RECURSIVE trimStart(_)
trimStart(s) == IF s # <<>> /\ Head(s) = " " THEN trimStart(Tail(s)) ELSE s

RECURSIVE trimEnd(_)
trimEnd(s) == IF s # <<>> /\ s[Len(s)] = " " THEN trimEnd(dropLast(s, 1)) ELSE s

trim(s) == trimEnd(trimStart(s))

\* .split(/[\s_-]+/): a run of separators splits once; a leading or a
\* trailing run leaves an empty piece.
splitOnSeparatorRuns(s) ==
  LET pieces == split(separatorsToSpaces(s), " ") IN
  (IF pieces[1] = <<>> THEN <<<<>>>> ELSE <<>>)
  \o nonEmpty(pieces)
  \o (IF Len(pieces) > 1 /\ pieces[Len(pieces)] = <<>> THEN <<<<>>>> ELSE <<>>)

\* words.find(w => !verbs.includes(w.toLowerCase())); undefined is the empty string
RECURSIVE findNonVerb(_)
findNonVerb(words) ==
  IF words = <<>> THEN <<>>
  ELSE IF toLowerCase(Head(words)) \notin operationIdVerbs THEN Head(words)
  ELSE findNonVerb(Tail(words))

\* /^v\d+$/i
isVersionSegment(s) ==
  /\ Len(s) >= 2
  /\ toLowerCaseChar(s[1]) = "v"
  /\ \A i \in 2..Len(s) : IsDigit(s[i])

\* .filter(s => s && !s.startsWith('{') && !/^v\d+$/i.test(s) && s !== 'api')
keepSegment(s) ==
  /\ s # <<>>
  /\ s[1] # "{"
  /\ ~isVersionSegment(s)
  /\ s # <<"a", "p", "i">>

routeSegments(route) == SelectSeq(split(route, "/"), keepSegment)

\* .replace(/[_-]+/g, ' ')
RECURSIVE separatorRunsToSpace(_)
separatorRunsToSpace(s) ==
  IF s = <<>> THEN s
  ELSE IF Head(s) \in {"_", "-"}
       THEN IF Len(s) > 1 /\ s[2] \in {"_", "-"}
            THEN separatorRunsToSpace(Tail(s))
            ELSE <<" ">> \o separatorRunsToSpace(Tail(s))
       ELSE <<Head(s)>> \o separatorRunsToSpace(Tail(s))

inferEntityFromPath(route, operation) ==
  LET candidate ==
        IF operation.operationId # <<>>
        THEN findNonVerb(splitOnSeparatorRuns(camelToSpaces(trim(operation.operationId))))
        ELSE <<>>
      segments == routeSegments(route)
      n == Len(segments)
      last == IF segments[n][1] = ":"
              THEN IF n > 1 THEN segments[n - 1] ELSE sResource
              ELSE segments[n]
      entity == naiveSingularize(
                  applyNamingConvention(separatorRunsToSpace(last), "PascalCase"))
  IN IF candidate # <<>> THEN applyNamingConvention(candidate, "PascalCase")
     ELSE IF n = 0 THEN sResource
     ELSE IF entity # <<>> THEN entity ELSE sResource

\* null is the empty string
inferActionFromPath(route, method) ==
  LET segments == routeSegments(route)
      last == segments[Len(segments)]
  IN IF segments = <<>> THEN <<>>
     ELSE IF last[1] = ":" THEN applyNamingConvention(substring(last, 1), "PascalCase")
     ELSE IF \E a \in knownActions : toLowerCase(a) = toLowerCase(last)
          THEN applyNamingConvention(last, "PascalCase")
     ELSE <<>>

\* getVerbForMethod as it would be were the patch entry missing from the table
getVerbForMethodWithoutPatch(method) ==
  CASE method = sGet -> <<"R", "e", "t", "r", "i", "e", "v", "e">>
    [] method = sPost -> <<"C", "r", "e", "a", "t", "e">>
    [] method = sPut -> <<"U", "p", "d", "a", "t", "e">>
    [] method = sDelete -> <<"D", "e", "l", "e", "t", "e">>
    [] OTHER -> <<"O", "p", "e", "r", "a", "t", "i", "o", "n">>

getVerbForMethod(method) ==
  CASE method = sGet -> <<"R", "e", "t", "r", "i", "e", "v", "e">>
    [] method = sPost -> <<"C", "r", "e", "a", "t", "e">>
    [] method = sPut -> <<"U", "p", "d", "a", "t", "e">>
    [] method = sPatch -> <<"P", "a", "t", "c", "h">>
    [] method = sDelete -> <<"D", "e", "l", "e", "t", "e">>
    [] OTHER -> <<"O", "p", "e", "r", "a", "t", "i", "o", "n">>

sStatus == <<"S", "t", "a", "t", "u", "s">>

\* statusNames?.[statusCode] || `Status${statusCode}`
statusBaseName(statusNames, statusCode) ==
  IF Configured(statusNames, statusCode) /\ statusNames[statusCode] # <<>>
  THEN statusNames[statusCode]
  ELSE sStatus \o statusCode

\* buildSmartResponseName as it would be were the style switch put before
\* the test of the status code
buildSmartResponseNameStyleFirst(statusCode, route, method, operation, style, statusNames) ==
  LET entity == inferEntityFromPath(route, operation)
      action == inferActionFromPath(route, method)
      m == toLowerCase(method)
  IN IF style \in {"bian", "rpc", "google"} /\ action # <<>>
     THEN action \o entity \o sResponse
     ELSE IF ~is2xxStatus(statusCode)
          THEN statusBaseName(statusNames, statusCode) \o sResponse
          ELSE getVerbForMethod(m) \o entity \o sResponse

buildSmartResponseName(statusCode, route, method, operation, style, statusNames) ==
  LET entity == inferEntityFromPath(route, operation)
      action == inferActionFromPath(route, method)
      m == toLowerCase(method)
  IN IF ~is2xxStatus(statusCode)
     THEN statusBaseName(statusNames, statusCode) \o sResponse
     ELSE IF style \in {"bian", "rpc", "google"} /\ action # <<>>
          THEN action \o entity \o sResponse
          ELSE getVerbForMethod(m) \o entity \o sResponse

\* ------------------------------------------------------------------------
\* transform.js: name uniqueness, normalizeExistingResponses
\* ------------------------------------------------------------------------

sRefPrefix == <<"#", "/", "c", "o", "m", "p", "o", "n", "e", "n", "t", "s", "/", "r", "e", "s", "p", "o", "n", "s", "e", "s", "/">>

sDefault == <<"d", "e", "f", "a", "u", "l", "t">>

\* .replace(/Response$/, '')
stripResponse(name) ==
  IF endsWith(name, sResponse) THEN dropLast(name, Len(sResponse)) ELSE name

\* .replace(/Response$/i, '')
stripResponseIgnoreCase(name) ==
  IF endsWithIgnoreCase(name, toLowerCase(sResponse))
  THEN dropLast(name, Len(sResponse)) ELSE name

\* .replace(/\d{3}$/, '')
stripTrailingCode(name) ==
  IF Len(name) >= 3 /\ \A i \in (Len(name) - 2)..Len(name) : IsDigit(name[i])
  THEN dropLast(name, 3) ELSE name

\* originalName.match(/(\d{3})/): the first run of three digits, else 'default'
RECURSIVE matchStatusCode(_)
matchStatusCode(name) ==
  IF Len(name) < 3 THEN sDefault
  ELSE IF IsDigit(name[1]) /\ IsDigit(name[2]) /\ IsDigit(name[3])
       THEN SubSeq(name, 1, 3)
       ELSE matchStatusCode(Tail(name))

\* while (usedNames.has(uniqueName)) { uniqueName = base + counter + 'Response'; counter++ }
RECURSIVE nextFreeName(_, _, _)
nextFreeName(name, usedNames, counter) ==
  LET candidate == stripResponse(name) \o toDecimal(counter) \o sResponse IN
  IF candidate \in usedNames THEN nextFreeName(name, usedNames, counter + 1)
  ELSE candidate

ensureUnique(name, usedNames) ==
  IF name \in usedNames THEN nextFreeName(name, usedNames, 1) ELSE name

\* The new name of a pre-existing response, before uniqueness.
normalizedName(originalName, responseNaming, convention) ==
  IF responseNaming.enabled
  THEN LET statusCode == matchStatusCode(originalName)
           statusNames == responseNaming.statusNames
           baseName == IF Configured(statusNames, statusCode)
                          /\ statusNames[statusCode] # <<>>
                       THEN statusNames[statusCode] ELSE originalName
           newName == applyNamingConvention(
                        stripResponseIgnoreCase(stripTrailingCode(baseName)), convention)
       IN IF endsWith(newName, sResponse) THEN newName ELSE newName \o sResponse
  ELSE originalName

\* existingMappingEntry as it would be were the file named before the
\* uniqueness loop
existingMappingEntryBeforeUnique(uniqueName, newName, statusCode, originalName) ==
  [folder |-> "responses", fileName |-> newName, statusCode |-> statusCode,
   route |-> <<>>, method |-> <<>>, original |-> originalName]

\* responseMapping[uniqueName] of a pre-existing response (an absent route
\* or method is the empty string).
existingMappingEntry(uniqueName, newName, statusCode, originalName) ==
  [folder |-> "responses", fileName |-> uniqueName, statusCode |-> statusCode,
   route |-> <<>>, method |-> <<>>, original |-> originalName]

refTo(name) == sRefPrefix \o name

normalizeOne(acc, originalName, content, responseNaming, convention) ==
  LET newName == normalizedName(originalName, responseNaming, convention)
      uniqueName == ensureUnique(newName, acc.usedNames)
  IN [normalizedResponses |-> Put(acc.normalizedResponses, uniqueName, content),
      responseMapping |-> Put(acc.responseMapping, uniqueName,
                              existingMappingEntry(uniqueName, newName,
                                matchStatusCode(originalName), originalName)),
      refMapping |-> IF uniqueName # originalName
                     THEN Put(acc.refMapping, refTo(originalName), refTo(uniqueName))
                     ELSE acc.refMapping,
      usedNames |-> acc.usedNames \cup {uniqueName}]

RECURSIVE normalizeFrom(_, _, _, _)
normalizeFrom(responses, responseNaming, convention, acc) ==
  IF responses = <<>> THEN acc
  ELSE normalizeFrom(Tail(responses), responseNaming, convention,
         normalizeOne(acc, responses[1].k, responses[1].v, responseNaming, convention))

normalizeExistingResponses(responses, scaffolding, convention) ==
  normalizeFrom(responses, scaffolding.responseNaming, convention,
    [normalizedResponses |-> EmptyMap, responseMapping |-> EmptyMap,
     refMapping |-> EmptyMap, usedNames |-> {}])

\* ------------------------------------------------------------------------
\* transform.js: extractInlineResponses
\* ------------------------------------------------------------------------

refResponse(name) ==
  [isRef |-> TRUE, ref |-> refTo(name), description |-> "",
   hasContent |-> FALSE, content |-> <<>>]

\* dedupSignature as it would be were bodiless responses keyed by their text
dedupSignatureByDescription(response, statusCode) ==
  LET sig == getContentSignature(response) IN
  IF sig # <<>> THEN sig ELSE <<"simple:", response.description>> \o statusCode

\* getContentSignature(response) || 'simple:' + statusCode
dedupSignature(response, statusCode) ==
  LET sig == getContentSignature(response) IN
  IF sig # <<>> THEN sig ELSE <<"simple:">> \o statusCode

generatedName(statusCode, op, style, responseNaming) ==
  IF responseNaming.enabled
  THEN buildSmartResponseName(statusCode, op.route, op.method, op, style,
                              responseNaming.statusNames)
  ELSE sResponse \o statusCode

\* inlineMappingEntry as it would be were the file named after the status
inlineMappingEntryNamedByStatus(uniqueName, statusCode, op) ==
  [folder |-> "responses", fileName |-> sResponse \o statusCode,
   statusCode |-> statusCode, route |-> op.route, method |-> op.method,
   original |-> <<>>]

inlineMappingEntry(uniqueName, statusCode, op) ==
  [folder |-> "responses", fileName |-> uniqueName, statusCode |-> statusCode,
   route |-> op.route, method |-> op.method, original |-> <<>>]

\* One iteration of the innermost loop: response j of operation i.
extractOne(acc, i, j, op, responseNaming, style) ==
  LET statusCode == op.responses[j].k
      response == op.responses[j].v
      dedupe == ~is2xxStatus(statusCode) /\ responseNaming.dedupeErrors
      sig == dedupSignature(response, statusCode)
      uniqueName == ensureUnique(generatedName(statusCode, op, style, responseNaming),
                                 acc.usedNames)
  IN IF response.isRef THEN acc
     ELSE IF dedupe /\ HasKey(acc.errorSignatures, sig)
     THEN [acc EXCEPT !.transformedPaths[i].responses[j].v =
                         refResponse(Get(acc.errorSignatures, sig))]
     ELSE [transformedPaths |->
             [acc.transformedPaths EXCEPT ![i].responses[j].v = refResponse(uniqueName)],
           extractedResponses |-> Put(acc.extractedResponses, uniqueName, response),
           responseMapping |-> Put(acc.responseMapping, uniqueName,
                                   inlineMappingEntry(uniqueName, statusCode, op)),
           usedNames |-> acc.usedNames \cup {uniqueName},
           errorSignatures |-> IF dedupe THEN Put(acc.errorSignatures, sig, uniqueName)
                               ELSE acc.errorSignatures]

RECURSIVE extractResponsesFrom(_, _, _, _, _, _)
extractResponsesFrom(acc, i, j, op, responseNaming, style) ==
  IF j > Len(op.responses) THEN acc
  ELSE extractResponsesFrom(extractOne(acc, i, j, op, responseNaming, style),
                            i, j + 1, op, responseNaming, style)

RECURSIVE extractFrom(_, _, _, _, _)
extractFrom(acc, paths, i, responseNaming, style) ==
  IF i > Len(paths) THEN acc
  ELSE IF toLowerCase(paths[i].method) \notin HTTP_METHODS
       THEN extractFrom(acc, paths, i + 1, responseNaming, style)
  ELSE extractFrom(extractResponsesFrom(acc, i, 1, paths[i], responseNaming, style),
                   paths, i + 1, responseNaming, style)

extractInlineResponses(paths, scaffolding, style) ==
  extractFrom([transformedPaths |-> paths, extractedResponses |-> EmptyMap,
               responseMapping |-> EmptyMap, usedNames |-> {},
               errorSignatures |-> EmptyMap],
              paths, 1, scaffolding.responseNaming, style)

\* ------------------------------------------------------------------------
\* transform.js: transform(openapi, options), one call as a state machine
\* ------------------------------------------------------------------------

VARIABLES
  pc,            \* position in transform(): start, clone, schemas, normalize,
                 \* rewrite, extract, assemble, done, thrown
  options,       \* the options argument
  scaffoldings,  \* what loadScaffoldings() returns
  heap,          \* the document objects: "openapi" is the caller's
  transformed,   \* the object the local `transformed` refers to
  input,         \* the caller's document as it was when transform() was called
  loc,           \* the other locals of transform()
  result,        \* the returned value
  thrown,        \* the message of the Error thrown
  arg,           \* argument of a pure function called on its own
  ret            \* and what it returned

transformVars == <<pc, options, scaffoldings, heap, transformed, input, loc, result, thrown>>

vars == <<pc, options, scaffoldings, heap, transformed, input, loc, result, thrown, arg, ret>>

\* Property names every plain JavaScript object inherits from Object.prototype.
ObjectPrototypeKeys ==
  {"constructor", "toString", "toLocaleString", "valueOf", "hasOwnProperty",
   "isPrototypeOf", "propertyIsEnumerable", "__proto__"}

\* What the reads of transform.js find in a value with none of the
\* scaffolding fields: responseNaming || {}, statusNames || {},
\* dedupeErrors !== false, schemaClassification !== false, folders || {},
\* suffixes || {}.
FieldlessScaffolding ==
  [responseNaming |-> [enabled |-> FALSE, dedupeErrors |-> TRUE, statusNames |-> <<>>],
   schemaClassification |-> TRUE, folders |-> <<>>, suffixes |-> <<>>]

\* scaffoldings[name] is truthy
scaffoldingFound(all, name) == HasKey(all, name) \/ name \in ObjectPrototypeKeys

\* scaffoldings[name]
scaffoldingNamed(all, name) ==
  IF HasKey(all, name) THEN Get(all, name) ELSE FieldlessScaffolding

keyList(m) == [i \in DOMAIN m |-> m[i].k]

RECURSIVE joinTokens(_, _)
joinTokens(tokens, sep) ==
  IF tokens = <<>> THEN <<>>
  ELSE IF Len(tokens) = 1 THEN tokens
  ELSE <<tokens[1], sep>> \o joinTokens(Tail(tokens), sep)

\* `Scaffolding "${name}" no encontrado. Disponibles: ${Object.keys(scaffoldings).join(', ')}`
notFoundMessage(all, name) ==
  <<"Scaffolding \"", name, "\" no encontrado. Disponibles: ">>
  \o joinTokens(keyList(all), ", ")

\* options.scaffolding || 'standard'
scaffoldingName(opts) == IF opts.scaffolding = "" THEN "standard" ELSE opts.scaffolding

\* deepClone as it would be were the clone left out: the same object
deepCloneAliased(ref) == ref

\* JSON.parse(JSON.stringify(openapi)): a new object
deepClone(ref) == "transformed"

\* str.replace(...) for each entry of refMapping in turn, on a string of the document
RECURSIVE rewriteString(_, _)
rewriteString(str, refMapping) ==
  IF refMapping = <<>> THEN str
  ELSE rewriteString(replaceAll(str, refMapping[1].k, refMapping[1].v), Tail(refMapping))

rewriteResponse(resp, refMapping) ==
  IF resp.isRef THEN [resp EXCEPT !.ref = rewriteString(@, refMapping)] ELSE resp

rewriteOperation(op, refMapping) ==
  [op EXCEPT !.responses =
     [j \in DOMAIN @ |-> [k |-> @[j].k, v |-> rewriteResponse(@[j].v, refMapping)]]]

\* Object.assign(transformed, JSON.parse(str)): the strings of the document
\* that can hold "#/components/responses/..." are the $ref values of paths.
rewriteDocument(doc, refMapping) ==
  IF refMapping = <<>> THEN doc
  ELSE [doc EXCEPT !.paths = [i \in DOMAIN @ |-> rewriteOperation(@[i], refMapping)]]

sRequest == <<"R", "e", "q", "u", "e", "s", "t">>

requestBodyEntry(name) ==
  [folder |-> "requestBodies",
   fileName |-> IF endsWith(name, sRequest) THEN name ELSE name \o sRequest,
   original |-> name]

buildRequestBodyMapping(requestBodies) ==
  [i \in DOMAIN requestBodies |->
     [k |-> requestBodies[i].k, v |-> requestBodyEntry(requestBodies[i].k)]]

NoLocals ==
  [scaffolding |-> FieldlessScaffolding, convention |-> "", detectedStyle |-> "",
   schemaMapping |-> EmptyMap, normalizedResponses |-> EmptyMap,
   existingResponseMapping |-> EmptyMap, refMapping |-> EmptyMap,
   extractedResponses |-> EmptyMap, inlineResponseMapping |-> EmptyMap]

NoResult ==
  [returned |-> FALSE, schemaMapping |-> EmptyMap, responseMapping |-> EmptyMap,
   requestBodyMapping |-> EmptyMap, detectedStyle |-> "",
   stats |-> [schemasClassified |-> 0, responsesExtracted |-> 0,
              responsesNormalized |-> 0, requestBodiesNormalized |-> 0]]

\* lines 481-482, scaffolding unknown: getScaffolding throws
GetScaffoldingThrows ==
  /\ pc = "start"
  /\ ~scaffoldingFound(scaffoldings, scaffoldingName(options))
  /\ thrown' = notFoundMessage(scaffoldings, scaffoldingName(options))
  /\ pc' = "thrown"
  /\ UNCHANGED <<options, scaffoldings, heap, transformed, input, loc, result, arg, ret>>

\* lines 481-486
GetScaffolding ==
  /\ pc = "start"
  /\ scaffoldingFound(scaffoldings, scaffoldingName(options))
  /\ loc' = [loc EXCEPT
               !.scaffolding = scaffoldingNamed(scaffoldings, scaffoldingName(options)),
               !.convention = IF options.components = "" THEN "PascalCase"
                              ELSE options.components,
               !.detectedStyle = options.style]
  /\ pc' = "clone"
  /\ UNCHANGED <<options, scaffoldings, heap, transformed, input, result, thrown, arg, ret>>

\* line 488
Clone ==
  /\ pc = "clone"
  /\ transformed' = deepClone("openapi")
  /\ heap' = [heap EXCEPT ![deepClone("openapi")] = heap["openapi"]]
  /\ pc' = "schemas"
  /\ UNCHANGED <<options, scaffoldings, input, loc, result, thrown, arg, ret>>

\* lines 498-503
BuildSchemaMapping ==
  /\ pc = "schemas"
  /\ loc' = [loc EXCEPT !.schemaMapping =
               buildSchemaMapping(heap[transformed].schemas, loc.scaffolding,
                                  loc.convention)]
  /\ pc' = "normalize"
  /\ UNCHANGED <<options, scaffoldings, heap, transformed, input, result, thrown, arg, ret>>

\* lines 506-514
NormalizeExisting ==
  /\ pc = "normalize"
  /\ LET n == normalizeExistingResponses(heap[transformed].responses, loc.scaffolding,
                                         loc.convention)
     IN loc' = [loc EXCEPT !.normalizedResponses = n.normalizedResponses,
                           !.existingResponseMapping = n.responseMapping,
                           !.refMapping = n.refMapping]
  /\ pc' = "rewrite"
  /\ UNCHANGED <<options, scaffoldings, heap, transformed, input, result, thrown, arg, ret>>

\* lines 516-523
RewriteRefs ==
  /\ pc = "rewrite"
  /\ heap' = [heap EXCEPT ![transformed] = rewriteDocument(@, loc.refMapping)]
  /\ pc' = "extract"
  /\ UNCHANGED <<options, scaffoldings, transformed, input, loc, result, thrown, arg, ret>>

\* lines 526-537
ExtractInline ==
  /\ pc = "extract"
  /\ LET e == extractInlineResponses(heap[transformed].paths, loc.scaffolding,
                                     loc.detectedStyle)
     IN /\ loc' = [loc EXCEPT !.extractedResponses = e.extractedResponses,
                              !.inlineResponseMapping = e.responseMapping]
        /\ heap' = [heap EXCEPT ![transformed].paths = e.transformedPaths]
  /\ pc' = "assemble"
  /\ UNCHANGED <<options, scaffoldings, transformed, input, result, thrown, arg, ret>>

\* lines 538-573
Assemble ==
  /\ pc = "assemble"
  /\ heap' = [heap EXCEPT ![transformed].responses =
                Spread(loc.normalizedResponses, loc.extractedResponses)]
  /\ result' =
       [returned |-> TRUE,
        schemaMapping |-> loc.schemaMapping,
        responseMapping |-> Spread(loc.existingResponseMapping, loc.inlineResponseMapping),
        requestBodyMapping |-> buildRequestBodyMapping(heap[transformed].requestBodies),
        detectedStyle |-> loc.detectedStyle,
        stats |-> [schemasClassified |-> Len(loc.schemaMapping),
                   responsesExtracted |-> Len(loc.extractedResponses),
                   responsesNormalized |-> Len(loc.existingResponseMapping),
                   requestBodiesNormalized |-> Len(heap[transformed].requestBodies)]]
  /\ pc' = "done"
  /\ UNCHANGED <<options, scaffoldings, transformed, input, loc, thrown, arg, ret>>

Next ==
  \/ GetScaffoldingThrows
  \/ GetScaffolding
  \/ Clone
  \/ BuildSchemaMapping
  \/ NormalizeExisting
  \/ RewriteRefs
  \/ ExtractInline
  \/ Assemble

\* ------------------------------------------------------------------------
\* Bounded inputs
\* ------------------------------------------------------------------------

\* Largest number of operations, of pre-existing responses and of schemas
\* in an input document.
MaxOps == 2

MaxExisting == 2

MaxSchemas == 2

nNotFound == <<"N", "o", "t", "F", "o", "u", "n", "d">>

nNotFoundResponse == nNotFound \o sResponse

nError404 == <<"E", "r", "r", "o", "r", "4", "0", "4">>

nNotFoundSnake == <<"n", "o", "t", "_", "f", "o", "u", "n", "d">>

nInternalServerError == <<"I", "n", "t", "e", "r", "n", "a", "l", "S", "e", "r", "v", "e", "r", "E", "r", "r", "o", "r">>

s200 == <<"2", "0", "0">>

s404 == <<"4", "0", "4">>

s500 == <<"5", "0", "0">>

rEmployees == <<"/", "e", "m", "p", "l", "o", "y", "e", "e", "s">>

rEmployee == <<"/", "e", "m", "p", "l", "o", "y", "e", "e", "s", "/", "{", "i", "d", "}">>

rPromote == <<"/", "e", "m", "p", "l", "o", "y", "e", "e", "s", "/", "{", "i", "d", "}", "/", "p", "r", "o", "m", "o", "t", "e">>

\* The loaded configuration: a conservative scaffolding, and two with
\* semantic response names and classified schemas, one of which switches
\* error deduplication off.
StatusNames == [c \in {s404, s500} |-> IF c = s404 THEN nNotFound ELSE nInternalServerError]

ClassifiedFolders ==
  [t \in SCHEMA_TYPES |-> IF t = OBJECT THEN "schemas" ELSE t]

ClassifiedSuffixes ==
  [t \in SCHEMA_TYPES |->
     CASE t = ENUM -> <<"E", "n", "u", "m">>
       [] t = PROPERTY -> <<"P", "r", "o", "p">>
       [] t = ARRAY -> <<"A", "r", "r", "a", "y">>
       [] OTHER -> <<"S", "c", "h", "e", "m", "a">>]

StandardScaffolding ==
  [responseNaming |-> [enabled |-> FALSE, dedupeErrors |-> TRUE, statusNames |-> <<>>],
   schemaClassification |-> FALSE, folders |-> <<>>, suffixes |-> <<>>]

RestfulScaffolding ==
  [responseNaming |-> [enabled |-> TRUE, dedupeErrors |-> TRUE, statusNames |-> StatusNames],
   schemaClassification |-> TRUE, folders |-> ClassifiedFolders,
   suffixes |-> ClassifiedSuffixes]

RpcScaffolding ==
  [RestfulScaffolding EXCEPT !.responseNaming.dedupeErrors = FALSE]

LoadedScaffoldings ==
  <<[k |-> "standard", v |-> StandardScaffolding],
    [k |-> "restful", v |-> RestfulScaffolding],
    [k |-> "rpc", v |-> RpcScaffolding]>>

\* Sequences of at most max pairwise distinct elements of pool.
DistinctSeqs(pool, max) ==
  {q \in UNION {[1..n -> pool] : n \in 0..max} :
     \A i, j \in DOMAIN q : i # j => q[i] # q[j]}

inlineResponse(description, content) ==
  [isRef |-> FALSE, ref |-> <<>>, description |-> description,
   hasContent |-> content # <<>>, content |-> content]

jsonContent(schemaRef) ==
  <<[k |-> "application/json",
     v |-> [hasSchema |-> TRUE, schema |-> <<[k |-> "$ref", v |-> schemaRef]>>]]>>

InlineResponses ==
  {inlineResponse("Not found", <<>>),
   inlineResponse("", <<>>),
   inlineResponse("Not found", jsonContent("#/components/schemas/Employee")),
   inlineResponse("Missing", jsonContent("#/components/schemas/Employee")),
   inlineResponse("Not found", jsonContent("#/components/schemas/Problem"))}

\* The operations of a document: operation i sits at OpSites[i] and has one
\* response.
OpSites ==
  <<[route |-> rEmployee, method |-> sGet],
    [route |-> rPromote, method |-> sPost],
    [route |-> rEmployees, method |-> sPost],
    [route |-> rEmployee, method |-> sDelete]>>

operationsOf(entries) ==
  [i \in DOMAIN entries |->
     [route |-> OpSites[i].route, method |-> OpSites[i].method,
      operationId |-> <<>>, responses |-> <<entries[i]>>]]

PathsOver(entrySet) ==
  {operationsOf(q) : q \in UNION {[1..n -> entrySet] : n \in 0..MaxOps}}

existingResponsesOf(names) ==
  [i \in DOMAIN names |-> [k |-> names[i], v |-> inlineResponse("pre-existing", <<>>)]]

ExistingNames == {nNotFound, nNotFoundResponse, nError404, nNotFoundSnake}

document(paths, responses, schemas, requestBodies) ==
  [paths |-> paths, responses |-> responses, schemas |-> schemas,
   requestBodies |-> requestBodies]

\* Documents whose operations refer to the pre-existing responses (every
\* reference resolves) or hold a description-only 404.
RefDocuments ==
  {document(p, existingResponsesOf(names), EmptyMap, EmptyMap) :
     <<names, p>> \in
       UNION {{names} \X PathsOver(
                {[k |-> s404, v |-> refResponse(names[i])] : i \in DOMAIN names}
                \cup {[k |-> s404, v |-> inlineResponse("Not found", <<>>)]})
              : names \in DistinctSeqs(ExistingNames, MaxExisting)}}

\* Documents whose operations hold inline responses.
InlineDocuments ==
  {document(p, EmptyMap, EmptyMap, EmptyMap) :
     p \in PathsOver({[k |-> c, v |-> r] : c \in {s200, s404, s500}, r \in InlineResponses})}

objectValue(enum, type, allOf, oneOf, anyOf, properties) ==
  [kind |-> "object", enum |-> enum, type |-> type, allOf |-> allOf,
   oneOf |-> oneOf, anyOf |-> anyOf, properties |-> properties]

\* Values that are not objects: null, undefined, a string, a number, a boolean
nonObjectValue(kind) ==
  [kind |-> kind, enum |-> "absent", type |-> "absent", allOf |-> "absent",
   oneOf |-> "absent", anyOf |-> "absent", properties |-> "absent"]

SchemaKeys ==
  {<<"U", "s", "e", "r", "P", "r", "o", "f", "i", "l", "e">>,
   <<"u", "s", "e", "r", "_", "p", "r", "o", "f", "i", "l", "e">>,
   <<"S", "t", "a", "t", "u", "s">>,
   <<"S", "t", "a", "t", "u", "s", "E", "n", "u", "m">>}

SchemaSamples ==
  {objectValue("absent", "object", "absent", "absent", "absent", "object"),
   objectValue("array", "string", "absent", "absent", "absent", "absent"),
   objectValue("absent", "string", "absent", "absent", "absent", "absent")}

schemasOf(q) == [i \in DOMAIN q |-> [k |-> q[i][1], v |-> q[i][2]]]

SchemaMaps ==
  {schemasOf(q) : q \in
     {q \in UNION {[1..n -> SchemaKeys \X SchemaSamples] : n \in 0..MaxSchemas} :
        \A i, j \in DOMAIN q : i # j => q[i][1] # q[j][1]}}

SchemaDocuments ==
  {document(<<>>, EmptyMap, m,
            <<[k |-> <<"E", "m", "p", "l", "o", "y", "e", "e", "B", "o", "d", "y">>, v |-> "body"]>>) : m \in SchemaMaps}

Conventions ==
  {"", "PascalCase", "camelCase", "snake_case", "kebab-case", "lowercase",
   "UPPERCASE", "Title Case"}

\* The calls of transform(): the document and the options.
Calls ==
  (RefDocuments \X ([scaffolding : {"", "restful", "custom", "constructor"},
                     style : {"restful"}, components : {""}]
                    \cup {[scaffolding |-> "restful", style |-> "restful",
                           components |-> "snake_case"]}))
  \cup (InlineDocuments \X [scaffolding : {"", "restful", "rpc"}, style : {"rpc"},
                            components : {""}])
  \cup (SchemaDocuments \X [scaffolding : {"", "restful"}, style : {"restful"},
                            components : Conventions])

EmptyDocument == document(<<>>, EmptyMap, EmptyMap, EmptyMap)

Init ==
  /\ \E call \in Calls :
       /\ heap = [r \in {"openapi", "transformed"} |->
                    IF r = "openapi" THEN call[1] ELSE EmptyDocument]
       /\ input = call[1]
       /\ options = call[2]
  /\ pc = "start"
  /\ scaffoldings = LoadedScaffoldings
  /\ transformed = "none"
  /\ loc = NoLocals
  /\ result = NoResult
  /\ thrown = <<>>
  /\ arg = nonObjectValue("undefined")
  /\ ret = ""

Spec == Init /\ [][Next]_vars

\* ------------------------------------------------------------------------
\* classifySchema called on its own, on every shape of value
\* ------------------------------------------------------------------------

FieldValues == {"absent", "null", "emptyArray", "array"}

PropertiesValues == {"absent", "null", "emptyObject", "object"}

TypeValues ==
  {"absent", "array", "object", "string", "number", "integer", "boolean", "null"}

SchemaValues ==
  {objectValue(e, t, a, o, y, p) :
     e \in FieldValues, t \in TypeValues, a \in {"absent", "array"},
     o \in {"absent", "array"}, y \in {"absent", "array"}, p \in PropertiesValues}
  \cup {nonObjectValue(kd) :
          kd \in {"null", "undefined", "string", "number", "boolean", "array"}}

InitClassify ==
  /\ arg \in SchemaValues
  /\ ret = ""
  /\ pc = "call"
  /\ heap = [r \in {"openapi", "transformed"} |-> EmptyDocument]
  /\ input = EmptyDocument
  /\ options = [scaffolding |-> "", style |-> "", components |-> ""]
  /\ scaffoldings = LoadedScaffoldings
  /\ transformed = "none"
  /\ loc = NoLocals
  /\ result = NoResult
  /\ thrown = <<>>

ClassifySchema ==
  /\ pc = "call"
  /\ ret' = classifySchema(arg)
  /\ pc' = "returned"
  /\ UNCHANGED <<options, scaffoldings, heap, transformed, input, loc, result, thrown, arg>>

NextClassify == ClassifySchema

SpecClassify == InitClassify /\ [][NextClassify]_vars

\* ------------------------------------------------------------------------
\* Properties of transform()
\* ------------------------------------------------------------------------

\* The document transform() hands back.
output == heap[transformed]

\* The positions <<i, j>> of the responses of a document's operations.
ResponseSites(doc) ==
  UNION {{<<i, j>> : j \in DOMAIN doc.paths[i].responses} : i \in DOMAIN doc.paths}

responseAt(doc, site) == doc.paths[site[1]].responses[site[2]].v

statusAt(doc, site) == doc.paths[site[1]].responses[site[2]].k

InlineSites(doc) == {site \in ResponseSites(doc) : ~responseAt(doc, site).isRef}

RefSites(doc) == {site \in ResponseSites(doc) : responseAt(doc, site).isRef}

\* The name a "#/components/responses/<name>" string refers to.
refName(ref) == substring(ref, Len(sRefPrefix))

isResponseRef(ref) == startsWith(ref, sRefPrefix)

\* The names under which pre-existing response R was normalized.
normalizedNamesOf(R) ==
  {loc.existingResponseMapping[i].k : i \in
     {i \in DOMAIN loc.existingResponseMapping :
        loc.existingResponseMapping[i].v.original = R}}

InputRefsResolve ==
  \A site \in RefSites(input) :
    /\ isResponseRef(responseAt(input, site).ref)
    /\ refName(responseAt(input, site).ref) \in Keys(input.responses)

\* C1: when every response reference of the input resolves, every response
\* reference in the output paths resolves to an entry of the output
\* components.responses, and a reference that pointed at pre-existing
\* response R points at exactly the normalized name of R.
C1_ReferentialIntegrity ==
  (pc = "done" /\ InputRefsResolve) =>
    /\ \A site \in RefSites(output) :
         /\ isResponseRef(responseAt(output, site).ref)
         /\ refName(responseAt(output, site).ref) \in Keys(output.responses)
    /\ \A site \in RefSites(input) :
         refName(responseAt(output, site).ref)
           \in normalizedNamesOf(refName(responseAt(input, site).ref))

\* C2: the document the caller passed is, at every point of the call, what
\* it was when transform() was called.
C2_CallerDocumentUntouched == heap["openapi"] = input

\* C2 witness: a finished call whose own document differs from the caller's
\* (inline responses were extracted or references renamed).
C2_Witness ==
  /\ pc = "done"
  /\ transformed # "openapi"
  /\ output.paths # input.paths
  /\ output.responses # input.responses

\* C3: a scaffolding name that is not in the loaded set makes transform()
\* throw an error listing the loaded names, with no mapping built or returned.
C3_UnknownScaffoldingFailsFast ==
  (pc # "start" /\ ~HasKey(scaffoldings, scaffoldingName(options))) =>
    /\ pc = "thrown"
    /\ \A name \in Keys(scaffoldings) : \E i \in DOMAIN thrown : thrown[i] = name
    /\ ~result.returned
    /\ loc.schemaMapping = EmptyMap
    /\ loc.existingResponseMapping = EmptyMap
    /\ loc.inlineResponseMapping = EmptyMap

HoldsList(value) == value \in {"emptyArray", "array"}

\* C4: classifySchema returns one of the five types for every value, objects
\* for a value that is no object, and otherwise follows the priority
\* enum > array > composite > object with properties > primitive > object.
C4_ClassifyPriority ==
  pc = "returned" =>
    /\ ret \in SCHEMA_TYPES
    /\ arg.kind # "object" => ret = OBJECT
    /\ (arg.kind = "object" /\ HoldsList(arg.enum)) => ret = ENUM
    /\ (arg.kind = "object" /\ ~Truthy(arg.enum) /\ arg.type = "array") => ret = ARRAY
    /\ (arg.kind = "object" /\ ~Truthy(arg.enum) /\ arg.type # "array"
        /\ (HoldsList(arg.allOf) \/ HoldsList(arg.oneOf) \/ HoldsList(arg.anyOf)))
         => ret = COMPOSITE
    /\ (arg.kind = "object" /\ ~Truthy(arg.enum) /\ arg.type = "object"
        /\ ~(Truthy(arg.allOf) \/ Truthy(arg.oneOf) \/ Truthy(arg.anyOf))
        /\ arg.properties \in {"emptyObject", "object"}) => ret = OBJECT
    /\ (arg.kind = "object" /\ ~Truthy(arg.enum)
        /\ ~(Truthy(arg.allOf) \/ Truthy(arg.oneOf) \/ Truthy(arg.anyOf))
        /\ arg.type \in PrimitiveTypes) => ret = PROPERTY
    /\ (arg.kind = "object" /\ ~Truthy(arg.enum)
        /\ ~(Truthy(arg.allOf) \/ Truthy(arg.oneOf) \/ Truthy(arg.anyOf))
        /\ arg.type \notin PrimitiveTypes \cup {"array"}
        /\ ~(arg.type = "object" /\ Truthy(arg.properties))) => ret = OBJECT

\* C4 witness: a schema with enum, type array and allOf was classified enums.
C4_Witness ==
  /\ pc = "returned"
  /\ arg.kind = "object" /\ arg.enum = "array" /\ arg.type = "array" /\ arg.allOf = "array"
  /\ ret = ENUM

\* Two responses with content blocks that are the same media type -> schema map.
SameContent(r1, r2) == r1.hasContent /\ r2.hasContent /\ r1.content = r2.content

\* C5 as stated: under every status code, two inline responses with
\* identical content are given the same component name.
C5_SameStatusSameContentShareName ==
  pc = "done" =>
    \A a, b \in InlineSites(input) :
      (statusAt(input, a) = statusAt(input, b)
       /\ SameContent(responseAt(input, a), responseAt(input, b)))
        => responseAt(output, a).ref = responseAt(output, b).ref

\* C5 amended: with error deduplication not disabled, two inline responses
\* under the same non-2xx status code with identical content are given the
\* same component name, whatever their descriptions.
C5_ErrorsSameContentShareName ==
  (pc = "done" /\ loc.scaffolding.responseNaming.dedupeErrors) =>
    \A a, b \in InlineSites(input) :
      (statusAt(input, a) = statusAt(input, b)
       /\ ~is2xxStatus(statusAt(input, a))
       /\ SameContent(responseAt(input, a), responseAt(input, b)))
        => /\ responseAt(output, a).isRef
           /\ responseAt(output, a).ref = responseAt(output, b).ref

\* C5 witness: two 404 responses with the same content and different
\* descriptions ended as references to one component.
C5_Witness ==
  /\ pc = "done"
  /\ loc.scaffolding.responseNaming.dedupeErrors
  /\ \E a, b \in InlineSites(input) :
       /\ a # b
       /\ statusAt(input, a) = s404 /\ statusAt(input, b) = s404
       /\ SameContent(responseAt(input, a), responseAt(input, b))
       /\ responseAt(input, a).description # responseAt(input, b).description
       /\ responseAt(output, a).ref = responseAt(output, b).ref

\* C6: two inline responses under different status codes are never
\* replaced by a reference to the same component.
C6_DifferentStatusDifferentName ==
  pc = "done" =>
    \A a, b \in InlineSites(input) :
      statusAt(input, a) # statusAt(input, b)
        => responseAt(output, a).ref # responseAt(output, b).ref

\* C7: two inline responses under the same status code whose content blocks
\* differ in a schema are not merged: their references differ and each
\* points at a component carrying its own content.
C7_DifferentSchemaNotMerged ==
  pc = "done" =>
    \A a, b \in InlineSites(input) :
      (statusAt(input, a) = statusAt(input, b)
       /\ responseAt(input, a).hasContent /\ responseAt(input, b).hasContent
       /\ responseAt(input, a).content # responseAt(input, b).content)
        => /\ responseAt(output, a).ref # responseAt(output, b).ref
           /\ Get(output.responses, refName(responseAt(output, a).ref)).content
                = responseAt(input, a).content

\* The inline responses of the input under status code c that have no body.
SimpleSites(c) ==
  {site \in InlineSites(input) :
     statusAt(input, site) = c /\ ~responseAt(input, site).hasContent}

\* The entries of the returned responseMapping made for bodiless inline
\* responses under status code c.
SimpleEntries(c) ==
  {i \in DOMAIN result.responseMapping :
     /\ result.responseMapping[i].v.statusCode = c
     /\ result.responseMapping[i].v.original = <<>>
     /\ ~Get(output.responses, result.responseMapping[i].k).hasContent}

\* C8: with error deduplication not disabled, the description-only (or
\* empty) inline responses under one non-2xx status code make exactly one
\* entry of responseMapping and of components.responses, and each of them
\* is replaced by a reference to it.
C8_SimpleErrorsShareOneEntry ==
  (pc = "done" /\ loc.scaffolding.responseNaming.dedupeErrors) =>
    \A c \in {statusAt(input, site) : site \in InlineSites(input)} :
      (~is2xxStatus(c) /\ SimpleSites(c) # {}) =>
        /\ Cardinality(SimpleEntries(c)) = 1
        /\ \A site \in SimpleSites(c) :
             /\ responseAt(output, site).isRef
             /\ \A i \in SimpleEntries(c) :
                  /\ responseAt(output, site).ref = refTo(result.responseMapping[i].k)
                  /\ HasKey(output.responses, result.responseMapping[i].k)

\* C8 witness: two operations with a bodiless 404 ended as references to
\* one entry.
C8_Witness ==
  /\ pc = "done"
  /\ loc.scaffolding.responseNaming.dedupeErrors
  /\ Cardinality(SimpleSites(s404)) >= 2
  /\ \A site \in SimpleSites(s404) : responseAt(output, site).isRef
  /\ Cardinality({responseAt(output, site).ref : site \in SimpleSites(s404)}) = 1

NoSharedFile(mapping) ==
  \A i, j \in DOMAIN mapping :
    i # j => ~(mapping[i].v.folder = mapping[j].v.folder
               /\ mapping[i].v.fileName = mapping[j].v.fileName)

\* C9: no two entries of the returned responseMapping have the same
\* fileName in the same folder.
C9_ResponseFilesUnique == pc = "done" => NoSharedFile(result.responseMapping)

\* C9 witness: a returned responseMapping with an entry of a pre-existing
\* response whose name took a counter, and an entry of an inline response.
C9_Witness ==
  /\ pc = "done"
  /\ \E i, j \in DOMAIN result.responseMapping :
       /\ result.responseMapping[i].v.original # <<>>
       /\ result.responseMapping[i].k #
            normalizedName(result.responseMapping[i].v.original,
                           loc.scaffolding.responseNaming, loc.convention)
       /\ result.responseMapping[j].v.original = <<>>

\* C10: no two entries of the returned schemaMapping have the same fileName
\* in the same folder.
C10_SchemaFilesUnique == pc = "done" => NoSharedFile(result.schemaMapping)

\* C11: a name generated for an extracted inline response never equals a
\* name given to a normalized pre-existing response in the same call, so
\* the merge keeps every pre-existing response's content and mapping entry.
C11_OneSetOfUsedNames ==
  pc = "done" =>
    /\ Keys(loc.extractedResponses) \cap Keys(loc.normalizedResponses) = {}
    /\ \A i \in DOMAIN loc.normalizedResponses :
         Get(output.responses, loc.normalizedResponses[i].k)
           = loc.normalizedResponses[i].v
    /\ \A i \in DOMAIN loc.existingResponseMapping :
         Get(result.responseMapping, loc.existingResponseMapping[i].k)
           = loc.existingResponseMapping[i].v


\* ------------------------------------------------------------------------
\* buildSmartResponseName called on its own, once and then once more with
\* one of style, route, method or operation changed
\* ------------------------------------------------------------------------

s201 == <<"2", "0", "1">>

s418 == <<"4", "1", "8">>

rSearchMethod == <<"/", "v", "1", "/", "e", "m", "p", "l", "o", "y", "e", "e", "s", ":", "s", "e", "a", "r", "c", "h">>

rPromoteMethod == <<"/", "v", "1", "/", "e", "m", "p", "l", "o", "y", "e", "e", "s", "/", "{", "i", "d", "}", ":", "p", "r", "o", "m", "o", "t", "e">>

rCompanies == <<"/", "a", "p", "i", "/", "v", "1", "/", "c", "o", "m", "p", "a", "n", "i", "e", "s">>

sOptions == <<"o", "p", "t", "i", "o", "n", "s">>

listEmployees == <<"l", "i", "s", "t", "E", "m", "p", "l", "o", "y", "e", "e", "s">>

NamingStatuses == {s200, s201, s404, s500, sDefault, s418}

NamingRoutes == {rEmployees, rEmployee, rPromote, rSearchMethod, rPromoteMethod, rCompanies}

NamingMethods == {sGet, sPost, sPut, sPatch, sDelete, sOptions}

NamingOperations == {[operationId |-> <<>>], [operationId |-> listEmployees]}

NamingStyles == {"restful", "rpc", "google", "bian", "standard"}

NamingCalls ==
  [statusCode : NamingStatuses, route : NamingRoutes, method : NamingMethods,
   operation : NamingOperations, style : NamingStyles, statusNames : {StatusNames}]

\* The calls that differ from call c in exactly one of style, route, method
\* and operation.
OneArgumentChanged(c) ==
  {[c EXCEPT !.style = x] : x \in NamingStyles \ {c.style}}
  \cup {[c EXCEPT !.route = x] : x \in NamingRoutes \ {c.route}}
  \cup {[c EXCEPT !.method = x] : x \in NamingMethods \ {c.method}}
  \cup {[c EXCEPT !.operation = x] : x \in NamingOperations \ {c.operation}}

InitNaming ==
  /\ arg \in {<<c>> : c \in NamingCalls}
  /\ ret = <<>>
  /\ pc = "call"
  /\ heap = [r \in {"openapi", "transformed"} |-> EmptyDocument]
  /\ input = EmptyDocument
  /\ options = [scaffolding |-> "", style |-> "", components |-> ""]
  /\ scaffoldings = LoadedScaffoldings
  /\ transformed = "none"
  /\ loc = NoLocals
  /\ result = NoResult
  /\ thrown = <<>>

BuildSmartResponseName ==
  /\ pc = "call"
  /\ LET c == arg[Len(arg)]
     IN ret' = Append(ret, buildSmartResponseName(c.statusCode, c.route, c.method,
                                                  c.operation, c.style, c.statusNames))
  /\ pc' = "returned"
  /\ UNCHANGED <<options, scaffoldings, heap, transformed, input, loc, result, thrown, arg>>

CallAgain ==
  /\ pc = "returned"
  /\ Len(arg) = 1
  /\ \E other \in OneArgumentChanged(arg[1]) : arg' = Append(arg, other)
  /\ pc' = "call"
  /\ UNCHANGED <<options, scaffoldings, heap, transformed, input, loc, result, thrown, ret>>

NextNaming == BuildSmartResponseName \/ CallAgain

SpecNaming == InitNaming /\ [][NextNaming]_vars



\* The call buildSmartResponseName returned from last, and the name it returned.
lastCall == arg[Len(arg)]

lastName == ret[Len(ret)]

IsKnownActionWord(segment) ==
  \E a \in knownActions : toLowerCase(a) = toLowerCase(segment)

\* C12: with style rpc or bian, a 2xx response of an operation without
\* operationId whose route's last static segment is a known action word is
\* named {Action}{Entity}Response: the PascalCased action segment, then the
\* singularized PascalCase of the resource segment before it.
C12_RpcActionEntityName ==
  pc = "returned" =>
    LET c == lastCall
        segments == routeSegments(c.route)
        n == Len(segments)
    IN (/\ c.style \in {"rpc", "bian"}
        /\ is2xxStatus(c.statusCode)
        /\ c.operation.operationId = <<>>
        /\ n >= 2
        /\ IsKnownActionWord(segments[n]))
       => lastName = applyNamingConvention(segments[n], "PascalCase")
                     \o naiveSingularize(applyNamingConvention(segments[n - 1], "PascalCase"))
                     \o sResponse

\* The last segment of a route as written, and where its ":" is (0: nowhere).
lastWrittenSegment(route) == split(route, "/")[Len(split(route, "/"))]

colonAt(s) ==
  IF \E i \in DOMAIN s : s[i] = ":"
  THEN CHOOSE i \in DOMAIN s : s[i] = ":" /\ \A j \in 1..(i - 1) : s[j] # ":"
  ELSE 0

HasCustomMethod(route) == colonAt(lastWrittenSegment(route)) > 1

customMethod(route) ==
  substring(lastWrittenSegment(route), colonAt(lastWrittenSegment(route)))

\* The resource segment a custom method is attached to: the last static
\* segment of the route cut before the ":".
customMethodResource(route) ==
  LET before == SubSeq(route, 1, Len(route) - Len(customMethod(route)) - 1)
  IN routeSegments(before)[Len(routeSegments(before))]

\* C13: with style google, a 2xx response of an operation without
\* operationId whose route ends in a custom method ":action" is named
\* {Action}{Entity}Response: the PascalCased suffix, then the PascalCase
\* (singularized or not) of the resource segment before the suffix.
C13_GoogleCustomMethodName ==
  pc = "returned" =>
    LET c == lastCall
        action == applyNamingConvention(customMethod(c.route), "PascalCase")
        resource == applyNamingConvention(customMethodResource(c.route), "PascalCase")
    IN (/\ c.style = "google"
        /\ is2xxStatus(c.statusCode)
        /\ c.operation.operationId = <<>>
        /\ HasCustomMethod(c.route))
       => lastName \in {action \o resource \o sResponse,
                        action \o naiveSingularize(resource) \o sResponse}

\* The verb of a method, as the naming table of the design gives it.
MethodVerb(method) ==
  CASE method = sGet -> <<"R", "e", "t", "r", "i", "e", "v", "e">>
    [] method = sPost -> <<"C", "r", "e", "a", "t", "e">>
    [] method = sPut -> <<"U", "p", "d", "a", "t", "e">>
    [] method = sPatch -> <<"P", "a", "t", "c", "h">>
    [] method = sDelete -> <<"D", "e", "l", "e", "t", "e">>
    [] OTHER -> <<"O", "p", "e", "r", "a", "t", "i", "o", "n">>

nRetrieveEmployeeResponse == <<"R", "e", "t", "r", "i", "e", "v", "e", "E", "m", "p", "l", "o", "y", "e", "e", "R", "e", "s", "p", "o", "n", "s", "e">>

C15_ErrorNamesIgnoreStyle ==
  pc = "returned" =>
    /\ \A i \in DOMAIN ret :
         ~is2xxStatus(arg[i].statusCode) =>
           ret[i] = (IF arg[i].statusCode \in DOMAIN arg[i].statusNames
                     THEN arg[i].statusNames[arg[i].statusCode]
                     ELSE sStatus \o arg[i].statusCode) \o sResponse
    /\ (Len(ret) = 2 /\ ~is2xxStatus(arg[1].statusCode)) => ret[1] = ret[2]

\* C15 witness: two calls for status 404 that differ in style both
\* returned NotFoundResponse.
C15_Witness ==
  /\ pc = "returned"
  /\ Len(ret) = 2
  /\ arg[1].statusCode = s404 /\ arg[2].statusCode = s404
  /\ arg[1].style = "restful" /\ arg[2].style = "rpc"
  /\ arg[1].route = rPromote
  /\ ret[1] = nNotFoundResponse /\ ret[2] = nNotFoundResponse



\* ------------------------------------------------------------------------
\* fixRefs.js: JSON text of a fragment
\* ------------------------------------------------------------------------

\* A fragment that is an object is a list of one-key objects with string
\* values, as the items of an allOf list are: entries[i] = [k |-> key, v |-> string].

sComponents == <<"#", "/", "c", "o", "m", "p", "o", "n", "e", "n", "t", "s", "/">>

sSchemas == <<"s", "c", "h", "e", "m", "a", "s">>

sResponses == <<"r", "e", "s", "p", "o", "n", "s", "e", "s">>

sPaths == <<"p", "a", "t", "h", "s">>

sMain == <<"m", "a", "i", "n">>

sYaml == <<".", "y", "a", "m", "l">>

sUp == <<".", ".", "/">>

sUpComponents == <<".", ".", "/", "c", "o", "m", "p", "o", "n", "e", "n", "t", "s", "/">>

sRef == <<"$", "r", "e", "f">>

sDescription == <<"d", "e", "s", "c", "r", "i", "p", "t", "i", "o", "n">>

sUndefined == <<"u", "n", "d", "e", "f", "i", "n", "e", "d">>

charAt(text, i) == IF i \in 1..Len(text) THEN text[i] ELSE ""

\* The first position from j on whose character is in the set (0: none).
firstOf(text, j, chars) ==
  IF \E k \in j..Len(text) : text[k] \in chars
  THEN CHOOSE k \in j..Len(text) :
         text[k] \in chars /\ \A h \in j..(k - 1) : text[h] \notin chars
  ELSE 0

\* JSON.stringify of a string: the quote and the backslash are escaped.
RECURSIVE escapeJson(_)
escapeJson(s) ==
  LET k == firstOf(s, 1, {"\"", "\\"}) IN
  IF k = 0 THEN s
  ELSE SubSeq(s, 1, k - 1) \o <<"\\", s[k]>> \o escapeJson(SubSeq(s, k + 1, Len(s)))

stringifyString(s) == <<"\"">> \o escapeJson(s) \o <<"\"">>

stringifyEntry(e) ==
  <<"{">> \o stringifyString(e.k) \o <<":">> \o stringifyString(e.v) \o <<"}">>

\* JSON.stringify(content)
stringifyFragment(entries) ==
  <<"[">> \o join([i \in DOMAIN entries |-> stringifyEntry(entries[i])], <<",">>)
  \o <<"]">>

NotParsed == [ok |-> FALSE, value |-> <<>>, next |-> 0]

\* A JSON string starting after its opening quote at position j: the
\* escapes \" \\ \/ stand for the character; any other character after a
\* backslash that the rewriting can put there is a syntax error.
RECURSIVE parseStringFrom(_, _, _)
parseStringFrom(text, j, acc) ==
  LET k == firstOf(text, j, {"\"", "\\"}) IN
  IF k = 0 THEN NotParsed
  ELSE IF text[k] = "\""
       THEN [ok |-> TRUE, value |-> acc \o SubSeq(text, j, k - 1), next |-> k + 1]
  ELSE IF charAt(text, k + 1) \in {"\"", "\\", "/"}
       THEN parseStringFrom(text, k + 2, acc \o SubSeq(text, j, k - 1) \o <<text[k + 1]>>)
  ELSE NotParsed

parseStringAt(text, i) ==
  IF charAt(text, i) = "\"" THEN parseStringFrom(text, i + 1, <<>>) ELSE NotParsed

\* The items of the list from position i on.
RECURSIVE parseItems(_, _, _)
parseItems(text, i, acc) ==
  LET key == parseStringAt(text, i + 1)
      val == parseStringAt(text, key.next + 1)
      items == Append(acc, [k |-> key.value, v |-> val.value])
  IN IF charAt(text, i) # "{" \/ ~key.ok \/ charAt(text, key.next) # ":" THEN NotParsed
     ELSE IF ~val.ok \/ charAt(text, val.next) # "}" THEN NotParsed
     ELSE IF charAt(text, val.next + 1) = "," THEN parseItems(text, val.next + 2, items)
     ELSE IF charAt(text, val.next + 1) = "]" /\ val.next + 1 = Len(text)
          THEN [ok |-> TRUE, value |-> items, next |-> val.next + 2]
     ELSE NotParsed

\* JSON.parse(contentString): ok is FALSE where JSON.parse throws.
parseFragment(text) ==
  IF text = <<"[", "]">> THEN [ok |-> TRUE, value |-> <<>>, next |-> 3]
  ELSE IF charAt(text, 1) # "[" THEN NotParsed
  ELSE parseItems(text, 2, <<>>)



\* ------------------------------------------------------------------------
\* fixRefs.js: the two rewritings of the text
\* ------------------------------------------------------------------------

IsLetter(c) == IsLower(c) \/ IsUpper(c)

IsNotQuote(c) == c # "\""

\* The last position of the longest run of letters / of characters other
\* than the quote that starts at position j (j - 1 when the run is empty).
lettersEnd(text, j) ==
  IF \E k \in j..Len(text) : ~IsLetter(text[k])
  THEN (CHOOSE k \in j..Len(text) :
          ~IsLetter(text[k]) /\ \A h \in j..(k - 1) : IsLetter(text[h])) - 1
  ELSE Len(text)

notQuoteEnd(text, j) ==
  IF firstOf(text, j, {"\""}) = 0 THEN Len(text) ELSE firstOf(text, j, {"\""}) - 1

sQuotedComponents == <<"\"">> \o sComponents

\* The text has p at position i.
startsAt(text, i, p) ==
  i + Len(p) - 1 <= Len(text) /\ SubSeq(text, i, i + Len(p) - 1) = p

NoMatch == [found |-> FALSE, targetType |-> <<>>, name |-> <<>>, next |-> 0]

\* REF_PATTERN = /"#\/components\/([a-zA-Z]+)\/([^"]+)"/ tried at position i
refPatternAt(text, i) ==
  LET typeStart == i + Len(sQuotedComponents)
      typeEnd == lettersEnd(text, typeStart)
      nameStart == typeEnd + 2
      nameEnd == notQuoteEnd(text, nameStart)
  IN IF ~startsAt(text, i, sQuotedComponents) THEN NoMatch
     ELSE IF typeEnd < typeStart \/ charAt(text, typeEnd + 1) # "/" THEN NoMatch
     ELSE IF nameEnd < nameStart \/ charAt(text, nameEnd + 1) # "\"" THEN NoMatch
     ELSE [found |-> TRUE, targetType |-> SubSeq(text, typeStart, typeEnd),
           name |-> SubSeq(text, nameStart, nameEnd), next |-> nameEnd + 2]

\* /"#\/components\/([^"]+)"/ tried at position i: name is the group
pathPatternAt(text, i) ==
  LET restStart == i + Len(sQuotedComponents)
      restEnd == notQuoteEnd(text, restStart)
  IN IF ~startsAt(text, i, sQuotedComponents) THEN NoMatch
     ELSE IF restEnd < restStart \/ charAt(text, restEnd + 1) # "\"" THEN NoMatch
     ELSE [found |-> TRUE, targetType |-> <<>>,
           name |-> SubSeq(text, restStart, restEnd), next |-> restEnd + 2]

\* The first position from i on where the pattern matches (0: none).
firstPathMatch(text, i) ==
  IF \E k \in i..Len(text) : pathPatternAt(text, k).found
  THEN CHOOSE k \in i..Len(text) :
         pathPatternAt(text, k).found /\ \A h \in i..(k - 1) : ~pathPatternAt(text, h).found
  ELSE 0

firstRefMatch(text, i) ==
  IF \E k \in i..Len(text) : refPatternAt(text, k).found
  THEN CHOOSE k \in i..Len(text) :
         refPatternAt(text, k).found /\ \A h \in i..(k - 1) : ~refPatternAt(text, h).found
  ELSE 0

\* contentString.replace(/"#\/components\/([^"]+)"/g, ...): the matches
\* left to right, none overlapping another
RECURSIVE transformPathRefsFrom(_, _, _)
transformPathRefsFrom(text, i, mainFileName) ==
  LET k == firstPathMatch(text, i)
      m == pathPatternAt(text, k)
  IN IF k = 0 THEN SubSeq(text, i, Len(text))
     ELSE SubSeq(text, i, k - 1)
          \o <<"\"">> \o sUp \o mainFileName \o sYaml \o sComponents \o m.name \o <<"\"">>
          \o transformPathRefsFrom(text, m.next, mainFileName)

\* transformPathRefs as it would be were the entrypoint's name fixed
transformPathRefsToMain(contentString, mainFileName) ==
  transformPathRefsFrom(contentString, 1, sMain)

transformPathRefs(contentString, mainFileName) ==
  transformPathRefsFrom(contentString, 1, mainFileName)

getRelativePath(fromType, toFolder) ==
  IF fromType = sPaths THEN sUpComponents \o toFolder ELSE sUp \o toFolder

IsKeyCharacter(c) == c \notin {" ", "_", "-"}

\* String(s || '').replace(/\s+/g, '').replace(/[_-]+/g, '').toLowerCase()
normalizeKey(s) == toLowerCase(SelectSeq(s, IsKeyCharacter))

\* ObjectPrototypeKeys, spelled out
ObjectPrototypeNames ==
  {<<"c", "o", "n", "s", "t", "r", "u", "c", "t", "o", "r">>,
   <<"t", "o", "S", "t", "r", "i", "n", "g">>,
   <<"t", "o", "L", "o", "c", "a", "l", "e", "S", "t", "r", "i", "n", "g">>,
   <<"v", "a", "l", "u", "e", "O", "f">>,
   <<"h", "a", "s", "O", "w", "n", "P", "r", "o", "p", "e", "r", "t", "y">>,
   <<"i", "s", "P", "r", "o", "t", "o", "t", "y", "p", "e", "O", "f">>,
   <<"p", "r", "o", "p", "e", "r", "t", "y", "I", "s", "E", "n", "u", "m", "e", "r", "a", "b", "l", "e">>,
   <<"_", "_", "p", "r", "o", "t", "o", "_", "_">>}

NoEntry == [found |-> FALSE, folder |-> <<>>, fileName |-> <<>>]

foundEntry(meta) == [found |-> TRUE, folder |-> meta.folder, fileName |-> meta.fileName]

\* buildCaseInsensitiveIndex(mapping).get(key): of the entries with that
\* normalized name, the one set last
RECURSIVE caseInsensitiveGet(_, _)
caseInsensitiveGet(mapping, key) ==
  IF mapping = <<>> THEN NoEntry
  ELSE IF normalizeKey(mapping[Len(mapping)].k) = key
       THEN foundEntry(mapping[Len(mapping)].v)
  ELSE caseInsensitiveGet(SubSeq(mapping, 1, Len(mapping) - 1), key)

\* A mapping that is absent (null) is the record [present |-> FALSE]; one
\* that is given is [present |-> TRUE, entries |-> map]. mapping[name] also
\* finds what every object inherits, a function with no folder and no
\* fileName.
resolveFromMapping(name, mapping) ==
  IF ~mapping.present THEN NoEntry
  ELSE IF HasKey(mapping.entries, name) THEN foundEntry(Get(mapping.entries, name))
  ELSE IF name \in ObjectPrototypeNames
       THEN [found |-> TRUE, folder |-> sUndefined, fileName |-> sUndefined]
  ELSE caseInsensitiveGet(mapping.entries, normalizeKey(name))


\* config.naming and config.affixes: naming.components is "" when absent;
\* affixes is [enabled, prefixes, suffixes] with tables over component types.
affixFor(table, componentType) ==
  IF componentType \in DOMAIN table THEN table[componentType] ELSE <<>>

generateFileName(itemName, componentType, namingConfig, affixesConfig) ==
  LET convention == IF namingConfig.components = "" THEN "PascalCase"
                    ELSE namingConfig.components
      fileName == applyNamingConvention(itemName, convention)
      prefix == affixFor(affixesConfig.prefixes, componentType)
      suffix == affixFor(affixesConfig.suffixes, componentType)
      prefixed == IF prefix # <<>> THEN prefix \o fileName ELSE fileName
  IN IF ~affixesConfig.enabled THEN fileName
     ELSE IF suffix # <<>> /\ ~endsWith(prefixed, suffix) THEN prefixed \o suffix
     ELSE prefixed

quotedFile(relativePath, fileName) ==
  <<"\"">> \o relativePath \o <<"/">> \o fileName \o sYaml \o <<"\"">>

\* The callback of contentString.replace(REF_PATTERN, ...) in transformRefs
refReplacement(targetType, name, fromFolder, config, mappings) ==
  LET schemaTarget == resolveFromMapping(name, mappings.schemaMapping)
      responseTarget == resolveFromMapping(name, mappings.responseMapping)
  IN IF targetType = sSchemas
     THEN IF schemaTarget.found
          THEN quotedFile(getRelativePath(fromFolder, schemaTarget.folder),
                          schemaTarget.fileName)
          ELSE quotedFile(getRelativePath(fromFolder, sSchemas),
                          generateFileName(name, sSchemas, config.naming, config.affixes))
     ELSE IF targetType = sResponses
     THEN IF responseTarget.found
          THEN quotedFile(getRelativePath(fromFolder,
                                          IF responseTarget.folder = <<>> THEN sResponses
                                          ELSE responseTarget.folder),
                          responseTarget.fileName)
          ELSE quotedFile(getRelativePath(fromFolder, sResponses), name)
     ELSE quotedFile(getRelativePath(fromFolder, targetType),
                     generateFileName(name, targetType, config.naming, config.affixes))

RECURSIVE transformRefsFrom(_, _, _, _, _)
transformRefsFrom(text, i, fromFolder, config, mappings) ==
  LET k == firstRefMatch(text, i)
      m == refPatternAt(text, k)
  IN IF k = 0 THEN SubSeq(text, i, Len(text))
     ELSE SubSeq(text, i, k - 1)
          \o refReplacement(m.targetType, m.name, fromFolder, config, mappings)
          \o transformRefsFrom(text, m.next, fromFolder, config, mappings)

transformRefs(contentString, fromFolder, config, mappings) ==
  transformRefsFrom(contentString, 1, fromFolder, config, mappings)

\* finalConfig: mainFileName || 'main' (absent is the empty string)
finalConfig(config) ==
  [config EXCEPT !.mainFileName = IF @ = <<>> THEN sMain ELSE @]

\* What fixRefs returns: same says whether it is the object it was given.
returnedOriginal(content) == [same |-> TRUE, value |-> content]

\* returnedParsed as it would be were the failure of JSON.parse not caught
\* with the original in hand
returnedParsedOrNothing(content, parsed) ==
  [same |-> FALSE, value |-> [kind |-> "object", entries |-> parsed.value]]

returnedParsed(content, parsed) ==
  IF parsed.ok THEN [same |-> FALSE, value |-> [kind |-> "object", entries |-> parsed.value]]
  ELSE returnedOriginal(content)


\* ------------------------------------------------------------------------
\* fixRefs called on its own
\* ------------------------------------------------------------------------

\* Largest number of strings in a fragment.
MaxEntries == 2

refAddress == <<"#", "/", "c", "o", "m", "p", "o", "n", "e", "n", "t", "s", "/", "s", "c", "h", "e", "m", "a", "s", "/", "A", "d", "d", "r", "e", "s", "s">>

refUserProfile == <<"#", "/", "c", "o", "m", "p", "o", "n", "e", "n", "t", "s", "/", "s", "c", "h", "e", "m", "a", "s", "/", "U", "s", "e", "r", "P", "r", "o", "f", "i", "l", "e">>

refPet == <<"#", "/", "c", "o", "m", "p", "o", "n", "e", "n", "t", "s", "/", "s", "c", "h", "e", "m", "a", "s", "/", "P", "e", "t">>

refNotFound == <<"#", "/", "c", "o", "m", "p", "o", "n", "e", "n", "t", "s", "/", "r", "e", "s", "p", "o", "n", "s", "e", "s", "/", "N", "o", "t", "F", "o", "u", "n", "d">>

refLimit == <<"#", "/", "c", "o", "m", "p", "o", "n", "e", "n", "t", "s", "/", "p", "a", "r", "a", "m", "e", "t", "e", "r", "s", "/", "l", "i", "m", "i", "t">>

refExternal == <<".", "/", "c", "o", "m", "m", "o", "n", ".", "y", "a", "m", "l", "#", "/", "c", "o", "m", "p", "o", "n", "e", "n", "t", "s", "/", "s", "c", "h", "e", "m", "a", "s", "/", "A", "d", "d", "r", "e", "s", "s">>

refDefinitions == <<"#", "/", "d", "e", "f", "i", "n", "i", "t", "i", "o", "n", "s", "/", "A", "d", "d", "r", "e", "s", "s">>

textPlain == <<"P", "o", "s", "t", "a", "l", " ", "a", "d", "d", "r", "e", "s", "s">>

textQuotingRef == <<"S", "e", "e", " ", "\"", "#", "/", "c", "o", "m", "p", "o", "n", "e", "n", "t", "s", "/", "s", "c", "h", "e", "m", "a", "s", "/", "P", "e", "t", "\"">>

nAddress == <<"A", "d", "d", "r", "e", "s", "s">>

nAddressSchema == <<"A", "d", "d", "r", "e", "s", "s", "S", "c", "h", "e", "m", "a">>

nUserProfileSnake == <<"u", "s", "e", "r", "_", "p", "r", "o", "f", "i", "l", "e">>

nUserProfileSchema == <<"U", "s", "e", "r", "P", "r", "o", "f", "i", "l", "e", "S", "c", "h", "e", "m", "a">>

nStatus == <<"S", "t", "a", "t", "u", "s">>

nStatusEnum == <<"S", "t", "a", "t", "u", "s", "E", "n", "u", "m">>

sEnums == <<"e", "n", "u", "m", "s">>

sOpenapi == <<"o", "p", "e", "n", "a", "p", "i">>

sSchemaSuffix == <<"S", "c", "h", "e", "m", "a">>


refEntry(ref) == [k |-> sRef, v |-> ref]

descriptionEntry(text) == [k |-> sDescription, v |-> text]

FragmentEntries ==
  {refEntry(r) : r \in {refAddress, refUserProfile, refPet, refNotFound, refLimit,
                        refExternal, refDefinitions}}
  \cup {descriptionEntry(t) : t \in {textPlain, textQuotingRef}}

\* The fragments: objects, an object that holds itself (JSON.stringify
\* throws), and values that are no objects.
Fragments ==
  {[kind |-> "object", entries |-> es] : es \in DistinctSeqs(FragmentEntries, MaxEntries)}
  \cup {[kind |-> kd, entries |-> <<>>] : kd \in {"circular", "null", "string"}}

NoMapping == [present |-> FALSE, entries |-> <<>>]

FixSchemaMapping ==
  [present |-> TRUE,
   entries |-> <<[k |-> nAddress, v |-> [folder |-> sSchemas, fileName |-> nAddressSchema]],
                 [k |-> nUserProfileSnake,
                  v |-> [folder |-> sSchemas, fileName |-> nUserProfileSchema]],
                 [k |-> nStatus, v |-> [folder |-> sEnums, fileName |-> nStatusEnum]]>>]

FixResponseMapping ==
  [present |-> TRUE,
   entries |-> <<[k |-> nNotFound,
                  v |-> [folder |-> sResponses, fileName |-> nNotFoundResponse]]>>]

FixMappings ==
  {[schemaMapping |-> NoMapping, responseMapping |-> NoMapping],
   [schemaMapping |-> FixSchemaMapping, responseMapping |-> FixResponseMapping]}

NoAffixes == [enabled |-> FALSE, prefixes |-> <<>>, suffixes |-> <<>>]

SchemaSuffixAffixes ==
  [enabled |-> TRUE, prefixes |-> <<>>,
   suffixes |-> [t \in {sSchemas} |-> sSchemaSuffix]]

FixConfigs ==
  {[mainFileName |-> <<>>, naming |-> [components |-> ""], affixes |-> NoAffixes],
   [mainFileName |-> sOpenapi, naming |-> [components |-> ""],
    affixes |-> SchemaSuffixAffixes]}

FixCalls ==
  [content : Fragments, componentType : {sPaths, sSchemas, sResponses},
   config : FixConfigs, mappings : FixMappings]

InitFixRefs ==
  /\ arg \in FixCalls
  /\ ret = returnedOriginal(nonObjectValue("undefined"))
  /\ pc = "call"
  /\ loc = [contentString |-> <<>>]
  /\ heap = [r \in {"openapi", "transformed"} |-> EmptyDocument]
  /\ input = EmptyDocument
  /\ options = [scaffolding |-> "", style |-> "", components |-> ""]
  /\ scaffoldings = LoadedScaffoldings
  /\ transformed = "none"
  /\ result = NoResult
  /\ thrown = <<>>

fixRefsFrame == <<options, scaffoldings, heap, transformed, input, result, thrown, arg>>

\* lines 166-168
FixRefsNotObject ==
  /\ pc = "call"
  /\ arg.content.kind \in {"null", "string"}
  /\ ret' = returnedOriginal(arg.content)
  /\ pc' = "returned"
  /\ UNCHANGED <<fixRefsFrame, loc>>

\* lines 181-184
FixRefsSerialize ==
  /\ pc = "call"
  /\ arg.content.kind = "object"
  /\ loc' = [contentString |-> stringifyFragment(arg.content.entries)]
  /\ pc' = "transform"
  /\ UNCHANGED <<fixRefsFrame, ret>>

\* lines 184-187: JSON.stringify throws
FixRefsSerializeFails ==
  /\ pc = "call"
  /\ arg.content.kind = "circular"
  /\ ret' = returnedOriginal(arg.content)
  /\ pc' = "returned"
  /\ UNCHANGED <<fixRefsFrame, loc>>

\* lines 190-191
FixRefsTransformPathRefs ==
  /\ pc = "transform"
  /\ arg.componentType = sPaths
  /\ loc' = [contentString |->
               transformPathRefs(loc.contentString, finalConfig(arg.config).mainFileName)]
  /\ pc' = "parse"
  /\ UNCHANGED <<fixRefsFrame, ret>>

\* lines 192-194
FixRefsTransformRefs ==
  /\ pc = "transform"
  /\ arg.componentType # sPaths
  /\ loc' = [contentString |->
               transformRefs(loc.contentString, arg.componentType,
                             finalConfig(arg.config), arg.mappings)]
  /\ pc' = "parse"
  /\ UNCHANGED <<fixRefsFrame, ret>>

\* lines 197-198
FixRefsDeserialize ==
  /\ pc = "parse"
  /\ parseFragment(loc.contentString).ok
  /\ ret' = returnedParsed(arg.content, parseFragment(loc.contentString))
  /\ pc' = "returned"
  /\ UNCHANGED <<fixRefsFrame, loc>>

\* lines 199-202: JSON.parse throws
FixRefsDeserializeFails ==
  /\ pc = "parse"
  /\ ~parseFragment(loc.contentString).ok
  /\ ret' = returnedParsed(arg.content, parseFragment(loc.contentString))
  /\ pc' = "returned"
  /\ UNCHANGED <<fixRefsFrame, loc>>

NextFixRefs ==
  \/ FixRefsNotObject
  \/ FixRefsSerialize
  \/ FixRefsSerializeFails
  \/ FixRefsTransformPathRefs
  \/ FixRefsTransformRefs
  \/ FixRefsDeserialize
  \/ FixRefsDeserializeFails

SpecFixRefs == InitFixRefs /\ [][NextFixRefs]_vars



\* A string of the form #/components/<kind>/<name>, and its two parts.
afterComponents(v) == substring(v, Len(sComponents))

IsComponentRef(v) ==
  /\ startsWith(v, sComponents)
  /\ firstOf(v, 1, {"\""}) = 0
  /\ firstOf(afterComponents(v), 1, {"/"}) > 1
  /\ firstOf(afterComponents(v), 1, {"/"}) < Len(afterComponents(v))

refKind(v) ==
  SubSeq(afterComponents(v), 1, firstOf(afterComponents(v), 1, {"/"}) - 1)

refTarget(v) ==
  substring(afterComponents(v), firstOf(afterComponents(v), 1, {"/"}))

\* The entries of a mapping that the design resolves a name to: the one
\* stored under the name, otherwise those whose key is the name once
\* whitespace, underscores and hyphens are removed and case is dropped.
ResolvedEntries(mapping, name) ==
  IF HasKey(mapping.entries, name) THEN {Get(mapping.entries, name)}
  ELSE {mapping.entries[i].v : i \in
          {i \in DOMAIN mapping.entries :
             normalizeKey(mapping.entries[i].k) = normalizeKey(name)}}

\* C16: in a fragment of a components kind, fixRefs rewrites each
\* #/components/schemas/<name> whose name the schemaMapping resolves to
\* ../<folder>/<fileName>.yaml of the resolved entry.
C16_SchemaRefsFollowMapping ==
  (pc = "returned" /\ arg.content.kind = "object" /\ arg.componentType # sPaths
   /\ arg.mappings.schemaMapping.present) =>
    \A i \in DOMAIN arg.content.entries :
      LET v == arg.content.entries[i].v IN
      (IsComponentRef(v) /\ refKind(v) = sSchemas
       /\ ResolvedEntries(arg.mappings.schemaMapping, refTarget(v)) # {}) =>
        \E e \in ResolvedEntries(arg.mappings.schemaMapping, refTarget(v)) :
          ret.value.entries[i].v = sUp \o e.folder \o <<"/">> \o e.fileName \o sYaml

\* C17: in a fragment of origin paths, fixRefs rewrites every
\* #/components/<kind>/<name> to ../{mainFileName}.yaml#/components/<kind>/<name>,
\* mainFileName being main when none is given, whatever the mappings hold.
C17_PathRefsPointIntoEntrypoint ==
  (pc = "returned" /\ arg.content.kind = "object" /\ arg.componentType = sPaths) =>
    /\ ~ret.same
    /\ Len(ret.value.entries) = Len(arg.content.entries)
    /\ \A i \in DOMAIN arg.content.entries :
         LET v == arg.content.entries[i].v IN
         IsComponentRef(v) =>
           ret.value.entries[i].v =
             sUp \o (IF arg.config.mainFileName = <<>> THEN sMain
                     ELSE arg.config.mainFileName) \o sYaml \o v

\* C17 witness: a paths fragment with a reference to a mapped schema, and
\* an entrypoint named in the configuration.
C17_Witness ==
  /\ pc = "returned"
  /\ arg.componentType = sPaths
  /\ arg.config.mainFileName = sOpenapi
  /\ arg.mappings.schemaMapping.present
  /\ \E i \in DOMAIN arg.content.entries :
       /\ arg.content.entries[i].v = refAddress
       /\ ret.value.entries[i].v = sUp \o sOpenapi \o sYaml \o refAddress

\* C18: fixRefs never throws; a fragment that is no object, one that cannot
\* be serialized and one whose rewritten text cannot be parsed back are
\* returned as they were given, the same object.
C18_FailuresReturnTheFragment ==
  /\ pc # "thrown"
  /\ thrown = <<>>
  /\ (pc = "returned"
      /\ (arg.content.kind # "object" \/ ~parseFragment(loc.contentString).ok))
       => ret = returnedOriginal(arg.content)

\* C18 witness: the rewritten text of an object could not be parsed back
\* and the fragment given was returned.
C18_Witness ==
  /\ pc = "returned"
  /\ arg.content.kind = "object"
  /\ ~parseFragment(loc.contentString).ok
  /\ ret.same /\ ret.value = arg.content

\* C19: fixRefs leaves every string that is not of the form
\* #/components/<kind>/<name> as it was, under every origin, and keeps the
\* keys and the number of entries of the fragment.
C19_OtherStringsUntouched ==
  (pc = "returned" /\ arg.content.kind = "object") =>
    /\ Len(ret.value.entries) = Len(arg.content.entries)
    /\ \A i \in DOMAIN arg.content.entries :
         /\ ret.value.entries[i].k = arg.content.entries[i].k
         /\ ~IsComponentRef(arg.content.entries[i].v)
              => ret.value.entries[i].v = arg.content.entries[i].v


\* ------------------------------------------------------------------------
\* transform.js: extractInlineResponses and normalizeExistingResponses called
\* on their own with malformed documents
\* ------------------------------------------------------------------------

\* null where an object is expected: reading a property of it is a TypeError
nullEntry == [isNull |-> TRUE]

IsNullEntry(v) == DOMAIN v = {"isNull"}

\* A string where a response is expected: its $ref and its content read
\* undefined.
stringEntry(text) ==
  [isRef |-> FALSE, ref |-> <<>>, description |-> "", hasContent |-> FALSE,
   content |-> <<>>, string |-> text]

\* content: { 'application/json': null }
nullMediaContent == <<[k |-> "application/json", v |-> nullEntry]>>

sParameters == <<"p", "a", "r", "a", "m", "e", "t", "e", "r", "s">>

\* line 348, response.$ref, and line 176, mc.schema, reached at lines 353-354
\* for a response that is not a 2xx when errors are deduplicated
responseRaises(statusCode, response, responseNaming) ==
  IF IsNullEntry(response) THEN TRUE
  ELSE /\ ~response.isRef
       /\ ~is2xxStatus(statusCode) /\ responseNaming.dedupeErrors
       /\ response.hasContent
       /\ \E m \in DOMAIN response.content : IsNullEntry(response.content[m].v)

\* line 335, JSON.parse(JSON.stringify(undefined)), then the loops of
\* lines 340-400
extractInlineResponsesRaises(hasPaths, paths, scaffolding) ==
  IF ~hasPaths THEN TRUE
  ELSE \E i \in DOMAIN paths :
         /\ toLowerCase(paths[i].method) \in HTTP_METHODS
         /\ \E j \in DOMAIN paths[i].responses :
              responseRaises(paths[i].responses[j].k, paths[i].responses[j].v,
                             scaffolding.responseNaming)

MalformedEntries ==
  {[k |-> s200, v |-> inlineResponse("OK", <<>>)],
   [k |-> s404, v |-> inlineResponse("Not found", <<>>)],
   [k |-> s404, v |-> refResponse(nNotFound)],
   [k |-> s200, v |-> nullEntry],
   [k |-> s404, v |-> stringEntry("gone")],
   [k |-> s200, v |-> inlineResponse("OK", nullMediaContent)],
   [k |-> s404, v |-> inlineResponse("Not found", nullMediaContent)]}

\* A path item whose only key is no HTTP method
parametersOnly(entry) ==
  <<[route |-> rEmployee, method |-> sParameters, operationId |-> <<>>,
     responses |-> <<entry>>]>>

MalformedPaths ==
  PathsOver(MalformedEntries) \cup {parametersOnly(e) : e \in MalformedEntries}

MalformedResponses ==
  {[i \in DOMAIN names |-> [k |-> names[i], v |-> c]] :
     names \in DistinctSeqs(ExistingNames, MaxExisting),
     c \in {inlineResponse("pre-existing", <<>>), nullEntry, stringEntry("gone"),
            inlineResponse("pre-existing", nullMediaContent)}}

ExtractScaffoldings ==
  {StandardScaffolding, RestfulScaffolding, RpcScaffolding, FieldlessScaffolding}

ExtractCalls ==
  [fn : {"extractInlineResponses"}, hasPaths : {TRUE}, paths : MalformedPaths,
   responses : {EmptyMap}, scaffolding : ExtractScaffoldings, style : {"restful"}]
  \cup [fn : {"extractInlineResponses"}, hasPaths : {FALSE}, paths : {<<>>},
        responses : {EmptyMap}, scaffolding : ExtractScaffoldings, style : {"restful"}]
  \cup [fn : {"normalizeExistingResponses"}, hasPaths : {TRUE}, paths : {<<>>},
        responses : MalformedResponses, scaffolding : ExtractScaffoldings,
        style : {"restful"}]

InitExtract ==
  /\ arg \in ExtractCalls
  /\ ret = <<>>
  /\ pc = "call"
  /\ heap = [r \in {"openapi", "transformed"} |-> EmptyDocument]
  /\ input = EmptyDocument
  /\ options = [scaffolding |-> "", style |-> "", components |-> ""]
  /\ scaffoldings = LoadedScaffoldings
  /\ transformed = "none"
  /\ loc = NoLocals
  /\ result = NoResult
  /\ thrown = <<>>

extractFrame == <<options, scaffoldings, heap, transformed, input, loc, result, arg>>

\* lines 329-403
ExtractInlineResponsesReturns ==
  /\ pc = "call"
  /\ arg.fn = "extractInlineResponses"
  /\ ~extractInlineResponsesRaises(arg.hasPaths, arg.paths, arg.scaffolding)
  /\ ret' = extractInlineResponses(arg.paths, arg.scaffolding, arg.style)
  /\ pc' = "returned"
  /\ UNCHANGED <<extractFrame, thrown>>

\* line 335: SyntaxError; lines 348 and 176: TypeError
ExtractInlineResponsesRaises ==
  /\ pc = "call"
  /\ arg.fn = "extractInlineResponses"
  /\ extractInlineResponsesRaises(arg.hasPaths, arg.paths, arg.scaffolding)
  /\ thrown' = IF arg.hasPaths THEN "TypeError" ELSE "SyntaxError"
  /\ pc' = "thrown"
  /\ UNCHANGED <<extractFrame, ret>>

\* lines 413-464
NormalizeExistingResponsesReturns ==
  /\ pc = "call"
  /\ arg.fn = "normalizeExistingResponses"
  /\ ret' = normalizeExistingResponses(arg.responses, arg.scaffolding, "")
  /\ pc' = "returned"
  /\ UNCHANGED <<extractFrame, thrown>>

NextExtract ==
  \/ ExtractInlineResponsesReturns
  \/ ExtractInlineResponsesRaises
  \/ NormalizeExistingResponsesReturns

SpecExtract == InitExtract /\ [][NextExtract]_vars

\* C20: extractInlineResponses and normalizeExistingResponses return for
\* every paths and responses input, null and non-object entries included,
\* and without a responseNaming section the names of the pre-existing
\* responses pass through unchanged.
C20_NeverRaisesForMalformedInput ==
  /\ pc # "thrown"
  /\ (pc = "returned" /\ arg.fn = "normalizeExistingResponses"
      /\ ~arg.scaffolding.responseNaming.enabled)
       => keyList(ret.normalizedResponses) = keyList(arg.responses)


\* ------------------------------------------------------------------------
\* namingConventions.js: applyAffixes, and the PascalCase round trip, called
\* on their own
\* ------------------------------------------------------------------------

\* applyAffixes as it would be were the prefix prepended without looking
applyAffixesAlwaysPrefixed(name, prefix, suffix) ==
  LET prefixed == IF prefix # <<>> THEN prefix \o name ELSE name
  IN IF name = <<>> THEN <<>>
     ELSE IF suffix # <<>> /\ ~endsWith(prefixed, suffix) THEN prefixed \o suffix
     ELSE prefixed

applyAffixes(name, prefix, suffix) ==
  LET prefixed == IF prefix # <<>> /\ ~startsWith(name, prefix) THEN prefix \o name
                  ELSE name
  IN IF name = <<>> THEN <<>>
     ELSE IF suffix # <<>> /\ ~endsWith(prefixed, suffix) THEN prefixed \o suffix
     ELSE prefixed

MaxName == 3

MaxAffix == 2

MaxWords == 2

MaxToken == 2

\* Strings of first..last characters of the alphabet
StringsOver(alphabet, first, last) ==
  UNION {[1..n -> alphabet] : n \in first..last}

AffixCalls ==
  [fn : {"applyAffixes"},
   name : StringsOver({"a", "B"}, 0, MaxName),
   prefix : StringsOver({"a", "B"}, 1, MaxAffix),
   suffix : StringsOver({"a", "B"}, 1, MaxAffix),
   words : {<<>>}]

RoundTripCalls ==
  [fn : {"applyNamingConvention"}, name : {<<>>}, prefix : {<<>>}, suffix : {<<>>},
   words : StringsOver(StringsOver({"a", "b"}, 1, MaxToken), 1, MaxWords)]

InitConventions ==
  /\ arg \in AffixCalls \cup RoundTripCalls
  /\ ret = <<>>
  /\ pc = "call"
  /\ heap = [r \in {"openapi", "transformed"} |-> EmptyDocument]
  /\ input = EmptyDocument
  /\ options = [scaffolding |-> "", style |-> "", components |-> ""]
  /\ scaffoldings = LoadedScaffoldings
  /\ transformed = "none"
  /\ loc = NoLocals
  /\ result = NoResult
  /\ thrown = <<>>

conventionsFrame ==
  <<options, scaffoldings, heap, transformed, input, loc, result, thrown, arg>>

\* applyAffixes(x, p, s)
ApplyAffixes ==
  /\ pc = "call"
  /\ arg.fn = "applyAffixes"
  /\ ret' = <<applyAffixes(arg.name, arg.prefix, arg.suffix)>>
  /\ pc' = "returned"
  /\ UNCHANGED conventionsFrame

\* applyAffixes(applyAffixes(x, p, s), p, s)
ApplyAffixesAgain ==
  /\ pc = "returned"
  /\ arg.fn = "applyAffixes"
  /\ ret' = Append(ret, applyAffixes(ret[1], arg.prefix, arg.suffix))
  /\ pc' = "again"
  /\ UNCHANGED conventionsFrame

\* line 40: the words joined in PascalCase
JoinPascalCase ==
  /\ pc = "call"
  /\ arg.fn = "applyNamingConvention"
  /\ ret' = <<pascalCase(arg.words)>>
  /\ pc' = "returned"
  /\ UNCHANGED conventionsFrame

\* applyNamingConvention(joined, 'PascalCase'): toWords, then the join
SplitAndJoinAgain ==
  /\ pc = "returned"
  /\ arg.fn = "applyNamingConvention"
  /\ ret' = Append(ret, applyNamingConvention(ret[1], "PascalCase"))
  /\ pc' = "again"
  /\ UNCHANGED conventionsFrame

NextConventions ==
  \/ ApplyAffixes
  \/ ApplyAffixesAgain
  \/ JoinPascalCase
  \/ SplitAndJoinAgain

SpecConventions == InitConventions /\ [][NextConventions]_vars

\* C21: applyAffixes is idempotent: applied to its own result with the same
\* non-empty prefix and suffix it returns that result.
C21_ApplyAffixesIdempotent ==
  (pc = "again" /\ arg.fn = "applyAffixes") => ret[2] = ret[1]

\* C21 witness: the first application added a prefix that the name is the
\* beginning of, and the suffix, and the second application was made.
C21_Witness ==
  /\ pc = "again" /\ arg.fn = "applyAffixes"
  /\ arg.name = <<"a">> /\ arg.prefix = <<"a", "B">> /\ arg.suffix = <<"B">>
  /\ ret[1] = <<"a", "B", "a", "B">>
  /\ ret[2] = ret[1]

\* C22: words of lowercase letters joined in PascalCase, split again by
\* toWords and joined in PascalCase once more give the first join.
C22_PascalCaseRoundTrip ==
  (pc = "again" /\ arg.fn = "applyNamingConvention") => ret[2] = ret[1]


\* ------------------------------------------------------------------------
\* detectApiStyle.js
\* ------------------------------------------------------------------------

\* A JavaScript number that is a quotient of two integers, d > 0. The
\* arithmetic below is exact.
Rat(n, d) == [n |-> n, d |-> d]

ratAdd(a, b) == Rat(a.n * b.d + b.n * a.d, a.d * b.d)

ratSub(a, b) == Rat(a.n * b.d - b.n * a.d, a.d * b.d)

ratLeq(a, b) == a.n * b.d <= b.n * a.d

ratEq(a, b) == a.n * b.d = b.n * a.d

\* Math.round(x * 100 + shift): the integer nearest, halves upwards
roundPercent(x, shift) == (200 * x.n + (2 * shift + 1) * x.d) \div (2 * x.d)

\* total === 0 ? 0 : matched / total
ratioOf(matched, total) == IF total = 0 THEN Rat(0, 1) ELSE Rat(matched, total)

\* line 45, the filter
isStaticSegment(s) ==
  /\ s # <<>>
  /\ s[1] # "{"
  /\ s[Len(s)] # "}"
  /\ ~isVersionSegment(s)
  /\ s # <<"a", "p", "i">>

trimAll(pieces) == [i \in DOMAIN pieces |-> trim(pieces[i])]

getStaticSegments(route) == SelectSeq(trimAll(split(route, "/")), isStaticSegment)

\* last.startsWith(':') ? last.substring(1) : last
withoutColon(s) == IF s # <<>> /\ s[1] = ":" THEN Tail(s) ELSE s

lastSegmentIsVerb(route, verbs) ==
  LET segments == getStaticSegments(route) IN
  \E v \in verbs : toLowerCase(v) = withoutColon(toLowerCase(segments[Len(segments)]))

computeVerbsAtEndRatio(paths, verbs) ==
  LET counted == {i \in DOMAIN paths : getStaticSegments(paths[i].route) # <<>>}
  IN IF paths = <<>> \/ verbs = {} THEN Rat(0, 1)
     ELSE ratioOf(Cardinality({i \in counted : lastSegmentIsVerb(paths[i].route, verbs)}),
                  Cardinality(counted))

\* computePluralResourcesRatio as it would be were a final ss taken for a plural
computePluralResourcesRatioAnyS(paths) ==
  LET counted == {i \in DOMAIN paths : getStaticSegments(paths[i].route) # <<>>}
      resource(i) == toLowerCase(getStaticSegments(paths[i].route)[1])
  IN IF paths = <<>> THEN Rat(0, 1)
     ELSE ratioOf(Cardinality({i \in counted : endsWith(resource(i), <<"s">>)}),
                  Cardinality(counted))

computePluralResourcesRatio(paths) ==
  LET counted == {i \in DOMAIN paths : getStaticSegments(paths[i].route) # <<>>}
      resource(i) == toLowerCase(getStaticSegments(paths[i].route)[1])
  IN IF paths = <<>> THEN Rat(0, 1)
     ELSE ratioOf(Cardinality({i \in counted :
                                 /\ endsWith(resource(i), <<"s">>)
                                 /\ ~endsWith(resource(i), <<"s", "s">>)}),
                  Cardinality(counted))

\* \w
IsWordCharacter(c) == IsLower(c) \/ IsUpper(c) \/ IsDigit(c) \/ c = "_"

\* new RegExp(':\\w+').test(route)
hasCustomMethod(route) ==
  \E i \in 1..(Len(route) - 1) : route[i] = ":" /\ IsWordCharacter(route[i + 1])

computeCustomMethodsRatio(paths) ==
  IF paths = <<>> THEN Rat(0, 1)
  ELSE ratioOf(Cardinality({i \in DOMAIN paths : hasCustomMethod(paths[i].route)}),
               Len(paths))

defaultVerbPrefixes ==
  {<<"g", "e", "t">>, <<"c", "r", "e", "a", "t", "e">>, <<"u", "p", "d", "a", "t", "e">>, <<"d", "e", "l", "e", "t", "e">>, <<"p", "a", "t", "c", "h">>}

\* verbs.some(v => lower.startsWith(v))
isVerbSegment(seg, verbPrefixes) ==
  \E v \in verbPrefixes : startsWith(withoutColon(toLowerCase(seg)), toLowerCase(v))

\* The static segments of every route, as pairs of route and position
allStaticSegments(paths) ==
  UNION {{<<i, j>> : j \in 1..Len(getStaticSegments(paths[i].route))} :
           i \in DOMAIN paths}

computeVerbsInPathRatio(paths, verbPrefixes) ==
  IF paths = <<>> THEN Rat(0, 1)
  ELSE ratioOf(Cardinality({p \in allStaticSegments(paths) :
                              isVerbSegment(getStaticSegments(paths[p[1]].route)[p[2]],
                                            verbPrefixes)}),
               Cardinality(allStaticSegments(paths)))

\* collectOperations, then the operations with an operationId: a route and
\* the position of the operation under it
operationsWithId(paths) ==
  {<<i, j>> \in (DOMAIN paths) \X (1..8) :
     /\ j <= Len(paths[i].operations)
     /\ toLowerCase(paths[i].operations[j].method) \in HTTP_METHODS
     /\ paths[i].operations[j].operationId # <<>>}

\* new RegExp(p, 'i').test(opId) for a pattern ^word
matchesPattern(opId, patterns) ==
  \E p \in patterns : startsWith(toLowerCase(opId), toLowerCase(p))

computeOperationIdPatternRatio(paths, patterns) ==
  IF paths = <<>> \/ patterns = {} THEN Rat(0, 1)
  ELSE ratioOf(Cardinality({p \in operationsWithId(paths) :
                              matchesPattern(paths[p[1]].operations[p[2]].operationId,
                                             patterns)}),
               Cardinality(operationsWithId(paths)))


\* One heuristic of lines 196-248: what it adds to the score
scoreTerm(on, passes, value) == IF on /\ passes THEN value ELSE Rat(0, 1)

\* lines 193-248: the accumulated score
rawScore(detection, paths) ==
  LET verbsAtEnd == computeVerbsAtEndRatio(paths, detection.verbsAtEnd.values)
      plural == computePluralResourcesRatio(paths)
      custom == computeCustomMethodsRatio(paths)
      verbsInPath == computeVerbsInPathRatio(paths, detection.verbsInPath.verbPrefixes)
      operationIds == computeOperationIdPatternRatio(paths,
                        detection.operationIdPatterns.patterns)
  IN ratAdd(scoreTerm(detection.verbsAtEnd.on,
                      ratLeq(detection.verbsAtEnd.minRatio, verbsAtEnd), verbsAtEnd),
     ratAdd(scoreTerm(detection.pluralResources.on,
                      ratLeq(detection.pluralResources.minRatio, plural), plural),
     ratAdd(scoreTerm(detection.customMethods.on,
                      ratLeq(detection.customMethods.minRatio, custom),
                      Rat(3 * custom.n, 2 * custom.d)),
     ratAdd(scoreTerm(detection.verbsInPath.on,
                      ratLeq(verbsInPath, detection.verbsInPath.maxRatio),
                      ratSub(Rat(1, 1), verbsInPath)),
            scoreTerm(detection.operationIdPatterns.on,
                      ratLeq(detection.operationIdPatterns.minRatio, operationIds),
                      operationIds)))))

checksOf(detection) ==
  Cardinality({h \in {"verbsAtEnd", "pluralResources", "customMethods", "verbsInPath",
                      "operationIdPatterns"} : detection[h].on})

\* line 251
normalizedScore(detection, paths) ==
  IF checksOf(detection) > 0
  THEN CHOOSE normalized \in {Rat(score.n, score.d * checksOf(detection)) :
                                score \in {rawScore(detection, paths)}} : TRUE
  ELSE Rat(0, 1)

\* lines 187-259
RECURSIVE scoreStyles(_, _)
scoreStyles(scaffoldingList, paths) ==
  IF scaffoldingList = <<>> THEN <<>>
  ELSE LET detection == scaffoldingList[1].v.detection
           rest == scoreStyles(Tail(scaffoldingList), paths)
       IN IF ~detection.present \/ ~detection.enabled THEN rest
          ELSE <<[style |-> scaffoldingList[1].k,
                  score |-> normalizedScore(detection, paths)]>> \o rest

\* results.sort as it would be were the comparison a.score - b.score
RECURSIVE insertByScoreAscending(_, _)
insertByScoreAscending(sorted, r) ==
  IF sorted = <<>> THEN <<r>>
  ELSE IF ratLeq(sorted[1].score, r.score)
       THEN <<sorted[1]>> \o insertByScoreAscending(Tail(sorted), r)
       ELSE <<r>> \o sorted

\* results.sort((a, b) => b.score - a.score): descending, and stable
RECURSIVE insertByScore(_, _)
insertByScore(sorted, r) ==
  IF sorted = <<>> THEN <<r>>
  ELSE IF ratLeq(r.score, sorted[1].score)
       THEN <<sorted[1]>> \o insertByScore(Tail(sorted), r)
       ELSE <<r>> \o sorted

RECURSIVE sortByScore(_, _)
sortByScore(results, sorted) ==
  IF results = <<>> THEN sorted
  ELSE sortByScore(Tail(results), insertByScore(sorted, results[1]))

min(a, b) == IF a <= b THEN a ELSE b

\* lines 275-277 as they would be were the bias of 50 left out
confidenceOfUnbiased(results) ==
  IF Len(results) > 1
  THEN min(100, roundPercent(ratSub(results[1].score, results[2].score), 0))
  ELSE 100

\* lines 275-277
confidenceOf(results) ==
  IF Len(results) > 1
  THEN min(100, roundPercent(ratSub(results[1].score, results[2].score), 50))
  ELSE 100

\* lines 265-283, results being sorted
rankedResult(results) ==
  [style |-> IF results[1].score.n > 0 THEN results[1].style ELSE "standard",
   confidence |-> confidenceOf(results),
   scores |-> [i \in DOMAIN results |->
                 [k |-> results[i].style, v |-> roundPercent(results[i].score, 0)]]]

\* line 262
sentinelResult == [style |-> "standard", confidence |-> 0, scores |-> <<>>]


\* ------------------------------------------------------------------------
\* detectApiStyle(paths, scaffoldings) and computePluralResourcesRatio(paths)
\* called on their own
\* ------------------------------------------------------------------------

MaxRoutes == 2

MaxStyles == 2

rAddress == <<"/", "a", "d", "d", "r", "e", "s", "s">>

rVersionOnly == <<"/", "v", "1", "/", "{", "i", "d", "}">>

rGetUsers == <<"/", "g", "e", "t", "U", "s", "e", "r", "s">>

operation(method, operationId) == [method |-> method, operationId |-> operationId]

\* The routes a document may hold, with their operations
RoutePool ==
  <<[route |-> rEmployees,
     operations |-> <<operation(sGet, listEmployees), operation(sPost, <<>>)>>],
    [route |-> rEmployee, operations |-> <<operation(sGet, <<>>)>>],
    [route |-> rPromote, operations |-> <<operation(sPost, <<"p", "r", "o", "m", "o", "t", "e", "E", "m", "p", "l", "o", "y", "e", "e">>)>>],
    [route |-> rSearchMethod, operations |-> <<operation(sGet, <<"s", "e", "a", "r", "c", "h", "E", "m", "p", "l", "o", "y", "e", "e", "s">>)>>],
    [route |-> rAddress, operations |-> <<operation(sGet, <<"g", "e", "t", "A", "d", "d", "r", "e", "s", "s">>)>>],
    [route |-> rVersionOnly, operations |-> <<operation(sGet, <<>>)>>],
    [route |-> rGetUsers, operations |-> <<operation(sParameters, <<"g", "e", "t", "U", "s", "e", "r", "s">>)>>]>>

\* The elements of pool at the positions of chosen, in the order of pool
selection(pool, chosen) ==
  [i \in 1..Cardinality(chosen) |->
     pool[CHOOSE x \in chosen : Cardinality({y \in chosen : y < x}) = i - 1]]

DetectPaths ==
  {selection(RoutePool, chosen) :
     chosen \in {c \in SUBSET DOMAIN RoutePool : Cardinality(c) <= MaxRoutes}}

heuristicOff ==
  [on |-> FALSE, values |-> {}, minRatio |-> Rat(0, 1), maxRatio |-> Rat(1, 1),
   verbPrefixes |-> defaultVerbPrefixes, patterns |-> {}]

\* detection: { enabled: true } and no heuristic
BareDetection ==
  [present |-> TRUE, enabled |-> TRUE, verbsAtEnd |-> heuristicOff,
   pluralResources |-> heuristicOff, customMethods |-> heuristicOff,
   verbsInPath |-> heuristicOff, operationIdPatterns |-> heuristicOff]

NoDetection == [BareDetection EXCEPT !.present = FALSE]

RestfulDetection ==
  [BareDetection EXCEPT
     !.pluralResources = [heuristicOff EXCEPT !.on = TRUE, !.minRatio = Rat(1, 2)],
     !.verbsInPath = [heuristicOff EXCEPT !.on = TRUE, !.maxRatio = Rat(3, 10)]]

DisabledDetection == [RestfulDetection EXCEPT !.enabled = FALSE]

RpcDetection ==
  [BareDetection EXCEPT
     !.verbsAtEnd = [heuristicOff EXCEPT !.on = TRUE, !.minRatio = Rat(3, 10),
                       !.values = {<<"p", "r", "o", "m", "o", "t", "e">>, <<"N", "o", "t", "i", "f", "y">>}],
     !.operationIdPatterns = [heuristicOff EXCEPT !.on = TRUE, !.minRatio = Rat(1, 5),
                                !.patterns = {<<"p", "r", "o", "m", "o", "t", "e">>, <<"s", "e", "a", "r", "c", "h">>}]]

GoogleDetection ==
  [BareDetection EXCEPT
     !.customMethods = [heuristicOff EXCEPT !.on = TRUE, !.minRatio = Rat(1, 10)]]

Detections ==
  {NoDetection, DisabledDetection, BareDetection, RestfulDetection, RpcDetection,
   GoogleDetection}

StyleNames == <<"restful", "rpc", "google", "bian">>

ScaffoldingSets ==
  {[i \in DOMAIN q |-> [k |-> StyleNames[i], v |-> [detection |-> q[i]]]] :
     q \in UNION {[1..n -> Detections] : n \in 0..MaxStyles}}

DetectCalls ==
  [fn : {"detectApiStyle"}, paths : DetectPaths, given : {TRUE},
   scaffoldings : ScaffoldingSets]
  \cup [fn : {"detectApiStyle"}, paths : DetectPaths, given : {FALSE},
        scaffoldings : {<<>>}]
  \cup [fn : {"computePluralResourcesRatio"}, paths : DetectPaths, given : {FALSE},
        scaffoldings : {<<>>}]

InitDetect ==
  /\ arg \in DetectCalls
  /\ ret = <<>>
  /\ pc = "call"
  /\ loc = [results |-> <<>>]
  /\ heap = [r \in {"openapi", "transformed"} |-> EmptyDocument]
  /\ input = EmptyDocument
  /\ options = [scaffolding |-> "", style |-> "", components |-> ""]
  /\ scaffoldings = LoadedScaffoldings
  /\ transformed = "none"
  /\ result = NoResult
  /\ thrown = <<>>

detectFrame == <<options, scaffoldings, heap, transformed, input, result, thrown, arg>>

\* lines 81-101
ComputePluralResourcesRatio ==
  /\ pc = "call"
  /\ arg.fn = "computePluralResourcesRatio"
  /\ ret' = computePluralResourcesRatio(arg.paths)
  /\ pc' = "returned"
  /\ UNCHANGED <<detectFrame, loc>>

\* lines 184-259; scaffoldings = {} when none is given
DetectScore ==
  /\ pc = "call"
  /\ arg.fn = "detectApiStyle"
  /\ loc' = [results |-> scoreStyles(arg.scaffoldings, arg.paths)]
  /\ pc' = "scored"
  /\ UNCHANGED <<detectFrame, ret>>

\* lines 261-263
DetectNothingScored ==
  /\ pc = "scored"
  /\ loc.results = <<>>
  /\ ret' = sentinelResult
  /\ pc' = "returned"
  /\ UNCHANGED <<detectFrame, loc>>

\* lines 265-283
DetectRank ==
  /\ pc = "scored"
  /\ loc.results # <<>>
  /\ loc' = [results |-> sortByScore(loc.results, <<>>)]
  /\ ret' = rankedResult(loc'.results)
  /\ pc' = "returned"
  /\ UNCHANGED detectFrame

NextDetect ==
  \/ ComputePluralResourcesRatio
  \/ DetectScore
  \/ DetectNothingScored
  \/ DetectRank

SpecDetect == InitDetect /\ [][NextDetect]_vars


\* The candidates of a call: the positions of the scaffoldings whose
\* detection block is there and is not switched off, and their scores.
EnabledStyles ==
  {i \in DOMAIN arg.scaffoldings :
     arg.scaffoldings[i].v.detection.present /\ arg.scaffoldings[i].v.detection.enabled}

scoreAt(i) == normalizedScore(arg.scaffoldings[i].v.detection, arg.paths)

\* The score of every candidate, computed once
CandidateScores == [i \in EnabledStyles |-> scoreAt(i)]

BestOf(candidates, scores) ==
  CHOOSE i \in candidates : \A j \in candidates : ratLeq(scores[j], scores[i])

\* c is the integer nearest to x * 100 + 50, halves upwards
IsRoundedConfidence(c, x) ==
  /\ (2 * c - 1) * x.d <= 2 * (100 * x.n + 50 * x.d)
  /\ 2 * (100 * x.n + 50 * x.d) < (2 * c + 1) * x.d

\* C23: detectApiStyle ranks the candidates by descending normalized score
\* and returns the name of the first when its score is above 0, standard
\* otherwise; with no candidate it returns standard, confidence 0 and no
\* scores.
C23_WinnerByNormalizedScore ==
  (pc = "returned" /\ arg.fn = "detectApiStyle") =>
    \A scores \in {CandidateScores} :
    IF EnabledStyles = {}
    THEN ret = [style |-> "standard", confidence |-> 0, scores |-> <<>>]
    ELSE /\ Len(loc.results) = Cardinality(EnabledStyles)
         /\ \A i \in EnabledStyles : \E j \in DOMAIN loc.results :
              loc.results[j] = [style |-> arg.scaffoldings[i].k, score |-> scores[i]]
         /\ \A j, k \in DOMAIN loc.results :
              j < k => ratLeq(loc.results[k].score, loc.results[j].score)
         /\ [i \in DOMAIN ret.scores |-> ret.scores[i].k]
              = [i \in DOMAIN loc.results |-> loc.results[i].style]
         /\ ret.style = IF scores[BestOf(EnabledStyles, scores)].n > 0
                        THEN loc.results[1].style ELSE "standard"

\* C23 witness: two candidates were scored and the one listed second won.
C23_Witness ==
  /\ pc = "returned" /\ arg.fn = "detectApiStyle"
  /\ Len(ret.scores) = 2
  /\ ret.style = "rpc"
  /\ ret.scores[2].k = "restful" /\ ret.scores[2].v > 0

\* C24: with two candidates or more the confidence is
\* min(100, round((top - second) * 100 + 50)), which is 50 for a tie and
\* lies between 50 and 100; with one candidate it is 100.
C24_ConfidenceFromMargin ==
  (pc = "returned" /\ arg.fn = "detectApiStyle" /\ EnabledStyles # {}) =>
    \A scores \in {CandidateScores} :
    \A top \in {BestOf(EnabledStyles, scores)} :
    LET others == EnabledStyles \ {top}
        margin == ratSub(scores[top], scores[BestOf(others, scores)])
    IN IF others = {} THEN ret.confidence = 100
       ELSE /\ ret.confidence \in 50..100
            /\ ret.confidence < 100 => IsRoundedConfidence(ret.confidence, margin)
            /\ ret.confidence = 100 => 200 * margin.n >= 99 * margin.d
            /\ margin.n = 0 => ret.confidence = 50

\* C24 witness: two candidates with different scores, and a confidence
\* strictly between the tie and the cap.
C24_Witness ==
  /\ pc = "returned" /\ arg.fn = "detectApiStyle"
  /\ Len(ret.scores) = 2
  /\ ret.scores[1].v > ret.scores[2].v
  /\ ret.confidence \in 51..99

\* C25: every value of the scores map is an integer between 0 and 100.
C25_ScoresWithinPercent ==
  (pc = "returned" /\ arg.fn = "detectApiStyle") =>
    \A i \in DOMAIN ret.scores : ret.scores[i].v \in 0..100

\* The pieces of a route that are neither empty, nor a placeholder, nor a
\* version, nor the literal api.
StaticPieces(route) ==
  LET pieces == split(route, "/")
      static(p) == /\ p # <<>>
                   /\ ~(p[1] = "{" /\ p[Len(p)] = "}")
                   /\ ~isVersionSegment(p)
                   /\ p # <<"a", "p", "i">>
  IN SelectSeq(pieces, static)

IsPluralPiece(p) ==
  /\ p[Len(p)] \in {"s", "S"}
  /\ ~(Len(p) > 1 /\ p[Len(p) - 1] \in {"s", "S"})

\* C26: computePluralResourcesRatio is the fraction, among the routes with
\* a static segment, of those whose first static segment ends in s but not
\* in ss; 0 for no paths; 1 for /employees and /employees/{id}.
C26_PluralResourcesRatio ==
  (pc = "returned" /\ arg.fn = "computePluralResourcesRatio") =>
    LET counted == {i \in DOMAIN arg.paths : StaticPieces(arg.paths[i].route) # <<>>}
        plural == {i \in counted : IsPluralPiece(StaticPieces(arg.paths[i].route)[1])}
    IN /\ ret.d > 0
       /\ ret.n * (IF counted = {} THEN 1 ELSE Cardinality(counted))
            = Cardinality(plural) * ret.d
       /\ arg.paths = <<>> => ret.n = 0
       /\ [i \in DOMAIN arg.paths |-> arg.paths[i].route] = <<rEmployees, rEmployee>>
            => ret.n = ret.d

\* C26 witness: the ratio of /employees and /employees/{id} was computed.
C26_Witness ==
  /\ pc = "returned" /\ arg.fn = "computePluralResourcesRatio"
  /\ [i \in DOMAIN arg.paths |-> arg.paths[i].route] = <<rEmployees, rEmployee>>
  /\ ret = Rat(2, 2)


\* ------------------------------------------------------------------------
\* transform.js: extractInlineResponses on operations with several responses
\* ------------------------------------------------------------------------

\* An integer-like property name (a canonical array index): such keys come
\* first in Object.entries, in ascending numeric order, whatever the order
\* they were inserted in.
isArrayIndex(key) ==
  /\ key # <<>>
  /\ \A i \in DOMAIN key : IsDigit(key[i])
  /\ (Len(key) = 1 \/ key[1] # "0")

\* Object.entries(object) of an object whose properties were inserted in
\* the order of the sequence
ownEntries(object) ==
  LET indices == {i \in DOMAIN object : isArrayIndex(object[i].k)}
      others == (DOMAIN object) \ indices
      byValue == [n \in 1..Cardinality(indices) |->
                    object[CHOOSE i \in indices :
                             Cardinality({j \in indices :
                               parseInt(object[j].k) < parseInt(object[i].k)}) = n - 1]]
  IN byValue \o selection(object, others)

\* The paths as lines 340-347 traverse them
traversed(paths) ==
  [i \in DOMAIN paths |-> [paths[i] EXCEPT !.responses = ownEntries(@)]]

TraversalEntries ==
  {[k |-> s200, v |-> inlineResponse("OK", <<>>)],
   [k |-> s201, v |-> inlineResponse("Created", <<>>)],
   [k |-> s404, v |-> inlineResponse("Not found", <<>>)],
   [k |-> sDefault, v |-> inlineResponse("Error", <<>>)]}

\* Responses maps of one or two entries, in the order they were inserted
TraversalResponses ==
  {q \in UNION {[1..n -> TraversalEntries] : n \in 1..2} :
     \A i, j \in DOMAIN q : i # j => q[i].k # q[j].k}

TraversalPaths ==
  {[i \in DOMAIN q |->
      [route |-> OpSites[i].route, method |-> OpSites[i].method,
       operationId |-> <<>>, responses |-> q[i]]] :
     q \in UNION {[1..n -> TraversalResponses] : n \in 1..MaxOps}}

InitTraversal ==
  /\ arg \in [paths : TraversalPaths, scaffolding : {RestfulScaffolding, RpcScaffolding},
              style : {"restful"}]
  /\ ret = <<>>
  /\ pc = "call"
  /\ heap = [r \in {"openapi", "transformed"} |-> EmptyDocument]
  /\ input = EmptyDocument
  /\ options = [scaffolding |-> "", style |-> "", components |-> ""]
  /\ scaffoldings = LoadedScaffoldings
  /\ transformed = "none"
  /\ loc = NoLocals
  /\ result = NoResult
  /\ thrown = <<>>

\* lines 329-403
ExtractInTraversalOrder ==
  /\ pc = "call"
  /\ ret' = extractInlineResponses(traversed(arg.paths), arg.scaffolding, arg.style)
  /\ pc' = "returned"
  /\ UNCHANGED <<options, scaffoldings, heap, transformed, input, loc, result, thrown, arg>>

NextTraversal == ExtractInTraversalOrder

SpecTraversal == InitTraversal /\ [][NextTraversal]_vars

\* The sites of the inline responses as the document lists them: operation i,
\* then position j of its responses map in insertion order.
InsertionSites ==
  {<<i, j>> \in (DOMAIN arg.paths) \X (1..2) : j <= Len(arg.paths[i].responses)}

siteBefore(s, t) == s[1] < t[1] \/ (s[1] = t[1] /\ s[2] < t[2])

siteCode(s) == arg.paths[s[1]].responses[s[2]].k

\* The name generated for a site before uniqueness, and the one it carries
\* in the returned paths.
siteBaseName(s) ==
  generatedName(siteCode(s), arg.paths[s[1]], arg.style, arg.scaffolding.responseNaming)

siteAssignedName(s) ==
  substring(Get(ret.transformedPaths[s[1]].responses, siteCode(s)).ref, Len(sRefPrefix))

siteDeduplicated(s) ==
  ~is2xxStatus(siteCode(s)) /\ arg.scaffolding.responseNaming.dedupeErrors

\* C27: of the inline responses that are not deduplicated and generate the
\* same name B + Response, the first in the order routes, methods, status
\* codes as inserted keeps B + Response and a later one gets B + n + Response
\* with the smallest free n >= 1; a deduplication bucket keeps its name.
C27_FirstInDocumentOrderNamesFirst ==
  pc = "returned" =>
    /\ \A s \in InsertionSites :
         (~siteDeduplicated(s) /\ endsWith(siteBaseName(s), sResponse)) =>
           LET earlier == {t \in InsertionSites :
                             siteBefore(t, s) /\ siteBaseName(t) = siteBaseName(s)}
           IN /\ earlier = {} => siteAssignedName(s) = siteBaseName(s)
              /\ Cardinality(earlier) = 1 =>
                   siteAssignedName(s)
                     = stripResponse(siteBaseName(s)) \o <<"1">> \o sResponse
    /\ \A s, t \in InsertionSites :
         (siteDeduplicated(s) /\ siteDeduplicated(t) /\ siteCode(s) = siteCode(t))
           => siteAssignedName(s) = siteAssignedName(t)


\* C28: after transform() the keys of the returned responseMapping are the
\* keys of the output components.responses, each entry has folder responses
\* and its key as fileName, and the keys of the returned schemaMapping are
\* the keys of the output components.schemas.
C28_MappingsMatchComponents ==
  pc = "done" =>
    /\ Keys(result.responseMapping) = Keys(output.responses)
    /\ \A i \in DOMAIN result.responseMapping :
         /\ result.responseMapping[i].v.folder = "responses"
         /\ result.responseMapping[i].v.fileName = result.responseMapping[i].k
    /\ Keys(result.schemaMapping) = Keys(output.schemas)

\* C28 witness: a call that returned a mapping holding a renamed
\* pre-existing response and an extracted one.
C28_Witness ==
  /\ pc = "done"
  /\ \E i, j \in DOMAIN result.responseMapping :
       /\ result.responseMapping[i].v.original # <<>>
       /\ result.responseMapping[i].v.original # result.responseMapping[i].k
       /\ result.responseMapping[j].v.original = <<>>
       /\ result.responseMapping[j].k # sResponse \o s404


\* ------------------------------------------------------------------------
\* modularize.js: assertValidOpenApiVersion, collectUsedRefs,
\* isComponentUsed
\* ------------------------------------------------------------------------

\* /^\d+$/
allDigits(s) == s # <<>> /\ \A i \in DOMAIN s : IsDigit(s[i])

\* /^3\.\d+(\.\d+)?$/.test(s)
isVersion3(s) ==
  IF Len(s) < 3 THEN FALSE
  ELSE IF s[1] # "3" \/ s[2] # "." THEN FALSE
  ELSE LET rest == SubSeq(s, 3, Len(s)) IN
       \E n \in 1..Len(rest) :
         /\ allDigits(SubSeq(rest, 1, n))
         /\ IF n = Len(rest) THEN TRUE
            ELSE IF rest[n + 1] # "." THEN FALSE
            ELSE allDigits(SubSeq(rest, n + 2, Len(rest)))

\* assertValidOpenApiVersion(ver) returns; ver is what oasData.openapi
\* reads: a string, or a value of another type
\* (typeof ver !== 'string' || !/.../.test(ver.trim()) throws)
versionAccepted(ver) ==
  IF ~ver.isString THEN FALSE ELSE isVersion3(trim(ver.text))

\* String.prototype.includes
includes(s, p) ==
  \E i \in 0..(Len(s) - Len(p)) : SubSeq(s, i + 1, i + Len(p)) = p

\* `#/components/${componentType}/${componentName}`
refPattern(componentType, componentName) ==
  sComponents \o componentType \o <<"/">> \o componentName

isComponentUsed(componentType, componentName, usedRefs) ==
  \E ref \in usedRefs : includes(ref, refPattern(componentType, componentName))

\* A schema object is held as the $ref strings found anywhere inside it, in
\* document order: collectUsedRefs reads nothing else of it.
refsOfSchema(schema) == {schema.refs[i] : i \in DOMAIN schema.refs}

\* collectUsedRefs on a response object: its own $ref, or the $ref strings
\* inside its content
refsOfResponse(response) ==
  IF response.isRef THEN {response.ref}
  ELSE IF response.hasContent THEN refsOfSchema(response.schema)
  ELSE {}

\* collectUsedRefs on one path item: the $ref strings of the request and
\* of every response
refsOfPathItem(item) ==
  refsOfSchema(item.request)
  \cup UNION {refsOfResponse(item.responses[j].v) : j \in DOMAIN item.responses}

\* collectUsedRefs(oasData.paths)
collectUsedRefs(paths) == UNION {refsOfPathItem(paths[i]) : i \in DOMAIN paths}


\* ------------------------------------------------------------------------
\* modularize.js: extractInlineResponses, replaceInlineWithRefs, with
\* responseNaming { enabled: false } (what loadModularizeConfig gives when
\* the configuration has no responseNaming) and naming.components
\* PascalCase.  The responses of the inputs are references, simple
\* (description only) or have a content of the one media type
\* application/json.
\* ------------------------------------------------------------------------

sDefaultName == <<"D", "e", "f", "a", "u", "l", "t">>

\* isSimpleResponse(resp): no key, or description only
isSimpleResponse(resp) == ~resp.isRef /\ ~resp.hasContent

\* getContentSignature(resp) of modularize.js: JSON.stringify(sig,
\* Object.keys(sig).sort()) writes, at every depth, only the properties
\* named like a media type, so the schema never reaches the text.  null is
\* the empty text.
contentSignatureOfRun(resp) ==
  IF ~resp.hasContent THEN <<>>
  ELSE <<"{", "application/json", ":", "{", "}", "}">>

\* while (usedNames.has(uniqueName)) uniqueName = finalName + counter++
RECURSIVE uniqueNameFrom(_, _, _)
uniqueNameFrom(finalName, counter, usedNames) ==
  IF finalName \o toDecimal(counter) \notin usedNames
  THEN finalName \o toDecimal(counter)
  ELSE uniqueNameFrom(finalName, counter + 1, usedNames)

\* generateResponseNameForInline(statusCode, description, usedNames,
\* { enabled: false }, { components: 'PascalCase' })
generateResponseNameForInline(statusCode, usedNames) ==
  LET baseName == IF statusCode = sDefault THEN sDefaultName
                  ELSE sStatus \o statusCode
      finalName == applyNamingConvention(baseName, "PascalCase")
  IN IF finalName \notin usedNames THEN finalName
     ELSE uniqueNameFrom(finalName, 1, usedNames)

\* extracted[name] of a simple response, of a response with content
extractedContent(response, statusCode) ==
  IF isSimpleResponse(response)
  THEN [isRef |-> FALSE, ref |-> <<>>,
        description |-> "Response for status", hasContent |-> FALSE,
        schema |-> [refs |-> <<>>]]
  ELSE [response EXCEPT !.description =
          IF response.description = "" THEN "Response for status"
          ELSE response.description]

\* The key under which an inline response is remembered: simpleByCode and
\* sigMap are two maps, held here as one with distinct keys.
sharingKey(response, statusCode) ==
  IF isSimpleResponse(response) THEN <<"simple:">> \o statusCode
  ELSE statusCode \o <<":">> \o contentSignatureOfRun(response)

\* One iteration of the innermost loop of extractInlineResponses: response
\* j of path item i.
extractOneOfRun(acc, i, j, response, statusCode) ==
  LET key == sharingKey(response, statusCode)
      name == generateResponseNameForInline(statusCode, acc.usedNames)
  IN IF response.isRef THEN acc
     ELSE IF HasKey(acc.shared, key)
     THEN [acc EXCEPT !.references =
             Append(@, [i |-> i, j |-> j, name |-> Get(acc.shared, key)])]
     ELSE [extracted |-> Put(acc.extracted, name, extractedContent(response, statusCode)),
           references |-> Append(acc.references, [i |-> i, j |-> j, name |-> name]),
           shared |-> Put(acc.shared, key, name),
           usedNames |-> acc.usedNames \cup {name}]

RECURSIVE extractResponsesOfRun(_, _, _, _)
extractResponsesOfRun(acc, paths, i, j) ==
  IF i > Len(paths) THEN acc
  ELSE IF toLowerCase(paths[i].method) \notin HTTP_METHODS
       THEN extractResponsesOfRun(acc, paths, i + 1, 1)
  ELSE IF j > Len(paths[i].responses) THEN extractResponsesOfRun(acc, paths, i + 1, 1)
  ELSE extractResponsesOfRun(
         extractOneOfRun(acc, i, j, paths[i].responses[j].v, paths[i].responses[j].k),
         paths, i, j + 1)

\* extractInlineResponses(paths, config, logger) of modularize.js
extractInlineResponsesOfRun(paths) ==
  extractResponsesOfRun(
    [extracted |-> EmptyMap, references |-> <<>>, shared |-> EmptyMap, usedNames |-> {}],
    paths, 1, 1)

\* { $ref: `../components/responses/${name}${ext}` }
fileRefResponse(name) ==
  [isRef |-> TRUE, ref |-> sUpComponents \o sResponses \o <<"/">> \o name \o sYaml,
   description |-> "", hasContent |-> FALSE, schema |-> [refs |-> <<>>]]

RECURSIVE replaceInlineWithRefs(_, _)
replaceInlineWithRefs(paths, references) ==
  IF references = <<>> THEN paths
  ELSE replaceInlineWithRefs(
         [paths EXCEPT ![references[1].i].responses[references[1].j].v =
            fileRefResponse(references[1].name)],
         Tail(references))


\* ------------------------------------------------------------------------
\* modularize.js: modularizeComponents, modularizePaths
\* ------------------------------------------------------------------------

\* COMPONENT_TYPES; the documents of the inputs hold schemas and responses
\* and none of the five other types, which modularizeComponents skips when
\* they have no item.
COMPONENT_TYPES == <<"schemas", "responses">>

typeText(type) == IF type = "schemas" THEN sSchemas ELSE sResponses

\* generateComponentFilename(name, type, { components: 'PascalCase' },
\* { enabled: false }); sanitizeComponentName leaves the names of the
\* inputs, made of letters and digits, as they are.
generateComponentFilename(name, type) ==
  IF type = "responses" THEN name ELSE applyNamingConvention(name, "PascalCase")

\* collectUsedRefs on the content of a component
refsOfComponent(type, content) ==
  IF type = "schemas" THEN refsOfSchema(content) ELSE refsOfResponse(content)

\* What writeYamlFile leaves in a folder of the output directory: the file
\* name, the key it was written for and the $ref strings of its content as
\* they read before fixRefs rewrites them.
writtenFile(folder, key, fileName, refs) ==
  [folder |-> folder, key |-> key, fileName |-> fileName \o sYaml, refs |-> refs]

\* The files the loop of modularizeComponents writes for one type.
componentFilesOfType(type, items, config, usedRefs) ==
  {writtenFile(type, items[i].k, generateComponentFilename(items[i].k, type),
               refsOfComponent(type, items[i].v)) :
     i \in {n \in DOMAIN items :
              ~(~config.includeUnusedComponents
                /\ ~isComponentUsed(typeText(type), items[n].k, usedRefs))}}

\* modularizeComponents(components, config, usedRefs, logger): the files
\* written
modularizeComponents(components, config, usedRefs) ==
  UNION {componentFilesOfType(COMPONENT_TYPES[t], components[COMPONENT_TYPES[t]],
                              config, usedRefs) : t \in DOMAIN COMPONENT_TYPES}

\* ensureDir(typeDir) for every type that has items
componentFolders(components) ==
  {COMPONENT_TYPES[t] : t \in {n \in DOMAIN COMPONENT_TYPES :
                                 components[COMPONENT_TYPES[n]] # <<>>}}

\* modularizePaths(paths, config, logger): one file per route; the file is
\* named after the route
modularizePaths(paths) ==
  {writtenFile("paths", paths[i].route, paths[i].route, refsOfPathItem(paths[i])) :
     i \in DOMAIN paths}

\* cleanEmptyFolders: the component folders that hold a file
nonEmptyFolders(folders, files) ==
  {d \in folders : d \notin {"schemas", "responses"} \/ \E f \in files : f.folder = d}


\* ------------------------------------------------------------------------
\* modularize.js: run(), one call as a state machine.  pc is the position
\* in run(); heap holds the disk, input the disk as it was when run() was
\* called; loc holds the locals oasData, response.replace and usedRefs; arg
\* holds the configuration and what readYamlFile finds in the input file.
\* ------------------------------------------------------------------------

\* Largest number of routes in the paths of an input document
MaxRunPaths == 2

schemaOf(refs) == [refs |-> refs]

inlineResponseOfRun(description, hasContent, refs) ==
  [isRef |-> FALSE, ref |-> <<>>, description |-> description,
   hasContent |-> hasContent, schema |-> schemaOf(refs)]

componentRefResponse(ref) ==
  [isRef |-> TRUE, ref |-> ref, description |-> "", hasContent |-> FALSE,
   schema |-> schemaOf(<<>>)]

sUser == <<"U", "s", "e", "r">>

sAddress == <<"A", "d", "d", "r", "e", "s", "s">>

sError == <<"E", "r", "r", "o", "r">>

sOrphan == <<"O", "r", "p", "h", "a", "n">>

sNotFound == <<"N", "o", "t", "F", "o", "u", "n", "d">>

pathItem(route, request, responses) ==
  [route |-> route, method |-> sGet, request |-> schemaOf(request),
   responses |-> responses]

\* /plain: get with the inline response 200 { description }
pPlain ==
  pathItem(<<"/", "p", "l", "a", "i", "n">>, <<>>,
    <<[k |-> <<"2", "0", "0">>, v |-> inlineResponseOfRun("ok", FALSE, <<>>)]>>)

\* /list: get with the inline response 200 whose content is a User
pList ==
  pathItem(<<"/", "l", "i", "s", "t">>, <<>>,
    <<[k |-> <<"2", "0", "0">>,
       v |-> inlineResponseOfRun("users", TRUE, <<refPattern(sSchemas, sUser)>>)]>>)

\* /missing: get with the response 404 $ref '#/components/responses/NotFound'
pMissing ==
  pathItem(<<"/", "m", "i", "s", "s", "i", "n", "g">>, <<>>,
    <<[k |-> <<"4", "0", "4">>,
       v |-> componentRefResponse(refPattern(sResponses, sNotFound))]>>)

\* /create: a request body that is a User, and the response 404 by $ref
pCreate ==
  pathItem(<<"/", "c", "r", "e", "a", "t", "e">>, <<refPattern(sSchemas, sUser)>>,
    <<[k |-> <<"4", "0", "4">>,
       v |-> componentRefResponse(refPattern(sResponses, sNotFound))]>>)

RunPathPool == {pPlain, pList, pMissing, pCreate}

\* The paths objects: up to MaxRunPaths routes, each once.
RunPaths ==
  {p \in UNION {[1..n -> RunPathPool] : n \in 0..MaxRunPaths} :
     \A i, j \in DOMAIN p : i # j => p[i].route # p[j].route}

\* components: User has an Address, NotFound carries an Error, nothing
\* names Orphan
RunComponents ==
  [schemas |->
     <<[k |-> sUser, v |-> schemaOf(<<refPattern(sSchemas, sAddress)>>)],
       [k |-> sAddress, v |-> schemaOf(<<>>)],
       [k |-> sError, v |-> schemaOf(<<>>)],
       [k |-> sOrphan, v |-> schemaOf(<<>>)]>>,
   responses |->
     <<[k |-> sNotFound,
        v |-> inlineResponseOfRun("not found", TRUE, <<refPattern(sSchemas, sError)>>)]>>]

\* A document without components reads as one with no item of any type.
NoComponents == [schemas |-> <<>>, responses |-> <<>>]

\* oasData.openapi: the strings '3.0.3', '3.1', ' 3.0.3 ', '2.0', '3.0.' and
\* the number YAML reads from an unquoted 3.1
RunVersions ==
  {[isString |-> TRUE, text |-> <<"3", ".", "0", ".", "3">>],
   [isString |-> TRUE, text |-> <<"3", ".", "1">>],
   [isString |-> TRUE, text |-> <<" ", "3", ".", "0", ".", "3", " ">>],
   [isString |-> TRUE, text |-> <<"2", ".", "0">>],
   [isString |-> TRUE, text |-> <<"3", ".", "0", ".">>],
   [isString |-> FALSE, text |-> <<>>]}

RunDocuments ==
  [openapi : RunVersions, paths : RunPaths, components : {RunComponents, NoComponents}]

\* cleanOutputDir and includeUnusedComponents as loadModularizeConfig
\* returns them; the other flags are at their defaults.
RunConfigs == [cleanOutputDir : BOOLEAN, includeUnusedComponents : BOOLEAN]

\* The disk before run(): the input file and the output directory may each
\* exist; an output directory that exists holds the files of an earlier run.
RunDisks ==
  {[input |-> i, outputDir |-> o, stale |-> o, folders |-> {}, files |-> {}] :
     i \in BOOLEAN, o \in BOOLEAN}

NoRunResult == [returned |-> FALSE, success |-> FALSE, cancelled |-> FALSE]

NoRunLocals == [oasData |-> "none", asked |-> FALSE, replace |-> FALSE, usedRefs |-> {}]

InitRun ==
  /\ arg \in [config : RunConfigs, document : RunDocuments]
  /\ heap \in [disk : RunDisks]
  /\ input = heap.disk
  /\ loc = NoRunLocals
  /\ pc = "start"
  /\ result = NoRunResult
  /\ thrown = <<>>
  /\ ret = <<>>
  /\ options = [scaffolding |-> "", style |-> "", components |-> ""]
  /\ scaffoldings = LoadedScaffoldings
  /\ transformed = "none"

runFrame == <<options, scaffoldings, transformed, input, arg, ret>>


\* removeDirIfExists(outputDir)
removeDirIfExists(disk) ==
  [disk EXCEPT !.outputDir = FALSE, !.stale = FALSE, !.folders = {}, !.files = {}]

\* ensureDir(path.join(outputDir, folder))
ensureDir(disk, folder) ==
  [disk EXCEPT !.outputDir = TRUE, !.folders = @ \cup {folder}]

\* afterPrompt as it would be were the directory removed before the answer
\* is looked at
afterPromptRemovingFirst(disk, replace) == removeDirIfExists(disk)

\* lines 778-782: the disk once the user has answered the prompt
afterPrompt(disk, replace) ==
  IF ~replace THEN disk ELSE removeDirIfExists(disk)

\* line 771: fileExists(outputDir) && config.cleanOutputDir
mustConfirm(disk, config) == disk.outputDir /\ config.cleanOutputDir

\* lines 762-764: the input file does not exist
RunInputMissing ==
  /\ pc = "start"
  /\ ~heap.disk.input
  /\ thrown' = "El archivo de entrada no existe"
  /\ pc' = "thrown"
  /\ UNCHANGED <<heap, loc, result, runFrame>>

\* line 766: readYamlFile(inputPath)
RunReadInput ==
  /\ pc = "start"
  /\ heap.disk.input
  /\ loc' = [loc EXCEPT !.oasData = arg.document]
  /\ pc' = "version"
  /\ UNCHANGED <<heap, result, thrown, runFrame>>

\* line 767: assertValidOpenApiVersion throws
RunInvalidVersion ==
  /\ pc = "version"
  /\ ~versionAccepted(loc.oasData.openapi)
  /\ thrown' = "Version OpenAPI invalida"
  /\ pc' = "thrown"
  /\ UNCHANGED <<heap, loc, result, runFrame>>

\* lines 767-768: assertValidOpenApiVersion returns
RunValidVersion ==
  /\ pc = "version"
  /\ versionAccepted(loc.oasData.openapi)
  /\ pc' = "clean"
  /\ UNCHANGED <<heap, loc, result, thrown, runFrame>>

\* line 771, condition false: nothing is asked and nothing removed
RunKeepOutputDir ==
  /\ pc = "clean"
  /\ ~mustConfirm(heap.disk, arg.config)
  /\ pc' = "dirs"
  /\ UNCHANGED <<heap, loc, result, thrown, runFrame>>

\* lines 772-780: the user declines (or leaves the prompt unanswered)
RunDecline ==
  /\ pc = "clean"
  /\ mustConfirm(heap.disk, arg.config)
  /\ loc' = [loc EXCEPT !.asked = TRUE, !.replace = FALSE]
  /\ heap' = [heap EXCEPT !.disk = afterPrompt(@, FALSE)]
  /\ result' = [returned |-> TRUE, success |-> FALSE, cancelled |-> TRUE]
  /\ pc' = "done"
  /\ UNCHANGED <<thrown, runFrame>>

\* lines 772-782: the user confirms
RunReplace ==
  /\ pc = "clean"
  /\ mustConfirm(heap.disk, arg.config)
  /\ loc' = [loc EXCEPT !.asked = TRUE, !.replace = TRUE]
  /\ heap' = [heap EXCEPT !.disk = afterPrompt(@, TRUE)]
  /\ pc' = "dirs"
  /\ UNCHANGED <<result, thrown, runFrame>>

\* lines 787-788
RunEnsureDirs ==
  /\ pc = "dirs"
  /\ heap' = [heap EXCEPT !.disk = ensureDir(ensureDir(@, "components"), "paths")]
  /\ pc' = "responses"
  /\ UNCHANGED <<loc, result, thrown, runFrame>>

\* lines 794-814: normalizeExistingResponses returns two empty objects when
\* responseNaming is not enabled; the inline responses are extracted,
\* assigned to components.responses and replaced in the paths
RunExtractResponses ==
  /\ pc = "responses"
  /\ LET e == extractInlineResponsesOfRun(loc.oasData.paths) IN
     loc' = [loc EXCEPT
               !.oasData.components.responses = Spread(@, e.extracted),
               !.oasData.paths = IF e.extracted # <<>>
                                 THEN replaceInlineWithRefs(@, e.references) ELSE @]
  /\ pc' = "components"
  /\ UNCHANGED <<heap, result, thrown, runFrame>>

\* lines 819-822
RunModularizeComponents ==
  /\ pc = "components"
  /\ LET usedRefs == collectUsedRefs(loc.oasData.paths) IN
     /\ loc' = [loc EXCEPT !.usedRefs = usedRefs]
     /\ heap' = [heap EXCEPT
                   !.disk.folders = @ \cup componentFolders(loc.oasData.components),
                   !.disk.files = @ \cup modularizeComponents(loc.oasData.components,
                                                              arg.config, usedRefs)]
  /\ pc' = "paths"
  /\ UNCHANGED <<result, thrown, runFrame>>

\* lines 827-829, 700-702: no route, modularizePaths throws
RunNoPaths ==
  /\ pc = "paths"
  /\ loc.oasData.paths = <<>>
  /\ thrown' = "No se encontraron paths validos para modularizar"
  /\ pc' = "thrown"
  /\ UNCHANGED <<heap, loc, result, runFrame>>

\* lines 827-829
RunModularizePaths ==
  /\ pc = "paths"
  /\ loc.oasData.paths # <<>>
  /\ heap' = [heap EXCEPT !.disk.files = @ \cup modularizePaths(loc.oasData.paths)]
  /\ pc' = "entrypoint"
  /\ UNCHANGED <<loc, result, thrown, runFrame>>

\* lines 837-857: the main file is written, the empty component folders
\* removed
RunWriteEntrypoint ==
  /\ pc = "entrypoint"
  /\ LET files == heap.disk.files
                    \cup {writtenFile("", <<>>, sOpenapi, {})} IN
     heap' = [heap EXCEPT !.disk.files = files,
                          !.disk.folders = nonEmptyFolders(@, files)]
  /\ pc' = "validate"
  /\ UNCHANGED <<loc, result, thrown, runFrame>>

\* lines 860-884: validateWithRedocly returns
RunValidated ==
  /\ pc = "validate"
  /\ result' = [returned |-> TRUE, success |-> TRUE, cancelled |-> FALSE]
  /\ pc' = "done"
  /\ UNCHANGED <<heap, loc, thrown, runFrame>>

\* lines 860-863: validateWithRedocly throws
RunValidationFails ==
  /\ pc = "validate"
  /\ thrown' = "Error de validacion Redocly"
  /\ pc' = "thrown"
  /\ UNCHANGED <<heap, loc, result, runFrame>>

NextRun ==
  \/ RunInputMissing
  \/ RunReadInput
  \/ RunInvalidVersion
  \/ RunValidVersion
  \/ RunKeepOutputDir
  \/ RunDecline
  \/ RunReplace
  \/ RunEnsureDirs
  \/ RunExtractResponses
  \/ RunModularizeComponents
  \/ RunNoPaths
  \/ RunModularizePaths
  \/ RunWriteEntrypoint
  \/ RunValidated
  \/ RunValidationFails

SpecRun == InitRun /\ [][NextRun]_vars


\* ------------------------------------------------------------------------
\* Properties of run()
\* ------------------------------------------------------------------------

\* The $ref strings of the files run() has written
WrittenRefs == UNION {f.refs : f \in heap.disk.files}

\* A $ref that names the component, by its place in the document or by the
\* file it is written to
refersTo(ref, type, name) ==
  \/ ref = refPattern(typeText(type), name)
  \/ ref = sUpComponents \o typeText(type) \o <<"/">> \o name \o sYaml

IsWritten(type, name) ==
  \E f \in heap.disk.files : f.folder = type /\ f.key = name

\* every file of the run is on the disk
AllWritten == pc = "validate" \/ (pc = "done" /\ result.success)

\* C29: with includeUnusedComponents false, once run() has written its
\* files, every component that a written file references (from a path, an
\* extracted response by its generated name, or from another written
\* component) is written too.
C29_ReferencedComponentsAreWritten ==
  (AllWritten /\ ~arg.config.includeUnusedComponents) =>
    \A t \in DOMAIN COMPONENT_TYPES :
      \A i \in DOMAIN loc.oasData.components[COMPONENT_TYPES[t]] :
        LET name == loc.oasData.components[COMPONENT_TYPES[t]][i].k IN
        (\E ref \in WrittenRefs : refersTo(ref, COMPONENT_TYPES[t], name))
          => IsWritten(COMPONENT_TYPES[t], name)

\* the output directory that was there before run() has been removed
Removed == input.stale /\ ~heap.disk.stale

\* C30: the existing output directory is removed only once the input file
\* was found and read, its version accepted, cleanOutputDir set and the
\* replacement confirmed; when the user declines, run() returns
\* { success: false, cancelled: true } with the disk as it was; when the
\* input is missing or its version invalid, run() throws with the disk as
\* it was.
C30_RemovalOnlyAfterConfirmation ==
  /\ Removed =>
       /\ input.input
       /\ pc \notin {"start", "version"}
       /\ versionAccepted(arg.document.openapi)
       /\ arg.config.cleanOutputDir
       /\ loc.asked /\ loc.replace
  /\ (loc.asked /\ ~loc.replace) =>
       /\ pc = "done"
       /\ result = [returned |-> TRUE, success |-> FALSE, cancelled |-> TRUE]
       /\ heap.disk = input
  /\ (~input.input \/ ~versionAccepted(arg.document.openapi)) =>
       /\ heap.disk = input
       /\ ~result.returned
       /\ pc \in {"start", "version", "thrown"}

\* run() has replaced an earlier output directory and returned success
C30_Witness ==
  /\ pc = "done" /\ result.success
  /\ Removed
  /\ heap.disk.files # {}

=============================================================================
